---------------------------- MODULE Spec2Model ----------------------------
(***************************************************************************)
(* A model of the abcjs engraver controller (abc_engraver_controller.js):  *)
(* the selection/history index with its hit test, the pointer and keyboard *)
(* drag state machine, and the horizontal spacing negotiation.             *)
(*                                                                         *)
(* JavaScript values that are not integers are modelled as tagged records: *)
(* a number-or-undefined-or-NaN value is [k |-> "num"|"undefined"|"NaN",   *)
(* v |-> Int]; an absent object (null) is index 0.                         *)
(***************************************************************************)
EXTENDS Integers, Sequences, FiniteSets, TLC

VARIABLES ctl, dom, calls, ev, sp, tr, run

vars == <<ctl, dom, calls, ev, sp, tr, run>>

---------------------------------------------------------------------------
(* Bounds of the model.                                                    *)

\* longest history the hit-test specification draws
MaxHitHist == 3
\* the hit-test specification's pointer coordinates range over 0..MaxX, 0..MaxY
MaxX == 7
MaxY == 5
\* the interaction specification's pointer heights range over 0..MaxDragY
MaxDragY == 2
\* keyboard drags are followed up to this many steps from 0
MaxStep == 1
\* number of registered select listeners ranges over 0..MaxListeners
MaxListeners == 1

---------------------------------------------------------------------------
(* JavaScript number values.                                               *)

Num(n) == [k |-> "num", v |-> n]
Undefined == [k |-> "undefined", v |-> 0]
NaN == [k |-> "NaN", v |-> 0]

IsNum(a) == a.k = "num"

\* a !== 0 for a number, undefined or NaN
NotStrictlyZero(a) == ~(IsNum(a) /\ a.v = 0)

\* a-- and a++ (undefined and NaN both give NaN)
Decrement(a) == IF IsNum(a) THEN Num(a.v - 1) ELSE NaN
Increment(a) == IF IsNum(a) THEN Num(a.v + 1) ELSE NaN

\* a * n for an integer n
Times(a, n) == IF IsNum(a) THEN Num(a.v * n) ELSE NaN

Abs(n) == IF n < 0 THEN 0 - n ELSE n
Min(a, b) == IF a < b THEN a ELSE b
Max(a, b) == IF a > b THEN a ELSE b

\* Math.round of the rational n/d (d > 0): the nearest integer, halves upwards
RoundDiv(n, d) == (2 * n + d) \div (2 * d)

\* spacing.STEP, the height of one staff step (abc_spacing.js is not part of
\* the sources; the model measures pointer coordinates in units that make it
\* an integer)
STEP == 2

---------------------------------------------------------------------------
(* The drawn score: logical elements and the primitives drawn for them.    *)

\* A class name is a sequence of chunks: the chunk "abcjs-" and single
\* characters.  A class attribute is the sequence of its space-separated names.
ClsNote == <<"abcjs-", "n", "o", "t", "e">>
ClsLyric == <<"abcjs-", "l", "y", "r", "i", "c">>
ClsV(s) == <<"abcjs-", "v">> \o s
ClsL(s) == <<"abcjs-", "l">> \o s
ClsM(s) == <<"abcjs-", "m">> \o s

NoElem == [null |-> TRUE, klass |-> <<>>]
Elem(names) == [null |-> FALSE, klass |-> names]

\* Logical elements (absEl).  hasHighlight is false for the plain object that
\* drawTriplet makes; isNote/isRest are abcelem.el_type === "note" and
\* abcelem.rest; startChar and endChar are abcelem's range in the source;
\* elemset holds the class attributes of the element's groups.
AbsEls ==
  << [hasHighlight |-> TRUE, isNote |-> TRUE, isRest |-> FALSE, startChar |-> 0, endChar |-> 2,
      elemset |-> << Elem(<<ClsNote, ClsL(<<"0">>), ClsM(<<"1", "2">>), ClsV(<<"0">>)>>) >>],
     [hasHighlight |-> TRUE, isNote |-> TRUE, isRest |-> FALSE, startChar |-> 2, endChar |-> 5,
      elemset |-> << Elem(<<ClsNote, ClsL(<<"0">>), ClsM(<<"0">>), ClsV(<<"1">>)>>),
                     NoElem,
                     Elem(<<ClsLyric, ClsV(<<"1">>), ClsM(<<"0", "1">>), ClsL(<<"-", "1">>)>>) >>],
     [hasHighlight |-> TRUE, isNote |-> TRUE, isRest |-> TRUE, startChar |-> 5, endChar |-> 6,
      elemset |-> << >>],
     [hasHighlight |-> FALSE, isNote |-> FALSE, isRest |-> FALSE, startChar |-> -1, endChar |-> -1,
      elemset |-> << Elem(<<ClsV(<<"2">>), ClsV(<<"3", "x">>)>>) >>] >>

AbsElIds == 1 .. Len(AbsEls)

\* Drawn primitives (svgEl): the logical element current when it was drawn,
\* its tag, whether it was recorded as not selectable, and its getBBox() in
\* half units (x2, y2, w2, h2 are twice x, y, width, height).
SvgEls ==
  << [absEl |-> 1, tagName |-> "path", notSelectable |-> FALSE, x2 |-> 1, y2 |-> 2, w2 |-> 4, h2 |-> 4],
     [absEl |-> 2, tagName |-> "path", notSelectable |-> FALSE, x2 |-> 10, y2 |-> 2, w2 |-> 4, h2 |-> 3],
     [absEl |-> 1, tagName |-> "text", notSelectable |-> FALSE, x2 |-> 0, y2 |-> 8, w2 |-> 12, h2 |-> 2],
     [absEl |-> 3, tagName |-> "path", notSelectable |-> FALSE, x2 |-> 10, y2 |-> 8, w2 |-> 4, h2 |-> 2],
     [absEl |-> 2, tagName |-> "path", notSelectable |-> FALSE, x2 |-> 4, y2 |-> 4, w2 |-> 8, h2 |-> 4],
     [absEl |-> 4, tagName |-> "g", notSelectable |-> TRUE, x2 |-> 2, y2 |-> 0, w2 |-> 12, h2 |-> 2] >>

SvgIds == 1 .. Len(SvgEls)


---------------------------------------------------------------------------
(* The controller, the page it drives and the listeners' record.           *)

NoDim == [set |-> FALSE, left |-> 0, top |-> 0, right |-> 0, bottom |-> 0]

\* the history entry recordHistory pushes for primitive s while logical
\* element a (0: none) is current; bboxCalls counts the getBBox() calls
\* getDim has made for the entry
HistoryEntry(a, s, notSelectable) ==
  [absEl |-> a, svgEl |-> s, selectable |-> ~notSelectable,
   isDraggable |-> (a # 0 /\ AbsEls[a].isNote /\ ~AbsEls[a].isRest
                    /\ SvgEls[s].tagName # "text"),
   dim |-> NoDim, bboxCalls |-> 0]

recordHistory(c, s, notSelectable) ==
  [c EXCEPT !.history = Append(@, HistoryEntry(c.currentAbsEl, s, notSelectable))]

\* drawing primitive s: the drawing code makes its logical element current
\* and records the primitive
Draw(c, s) ==
  recordHistory([c EXCEPT !.currentAbsEl = SvgEls[s].absEl], s, SvgEls[s].notSelectable)

RECURSIVE DrawAll(_, _)
DrawAll(c, prims) ==
  IF prims = << >> THEN c ELSE DrawAll(Draw(c, Head(prims)), Tail(prims))

\* sequences of distinct primitives of length at most n
Drawings(n) ==
  { d \in UNION { [1 .. m -> SvgIds] : m \in 0 .. n } :
      \A i, j \in DOMAIN d : i # j => d[i] # d[j] }

NoTransform == [set |-> FALSE, off |-> Undefined]

\* the page after renderer.reset(): nothing highlighted, moved or focused;
\* listening says whether engraveTune has attached the handlers, handlers
\* how many times it has attached the pointer handlers to the svg, and
\* keyHandlers how many times the key and focus handlers to each primitive
FreshDom ==
  [highlight |-> [a \in AbsElIds |-> "none"],
   transform |-> [s \in SvgIds |-> NoTransform],
   focus |-> 0,
   globalClass |-> FALSE,
   listening |-> FALSE,
   handlers |-> 0,
   keyHandlers |-> [s \in SvgIds |-> 0]]

\* EngraverController.prototype.reset: dragStep and dragMechanism are not
\* among the fields it assigns
reset(c) ==
  [c EXCEPT !.selected = << >>,
            !.staffgroups = << >>,
            !.history = << >>,
            !.currentAbsEl = 0,
            !.dragTarget = 0,
            !.dragMouseStart = <<-1, -1>>,
            !.dragYStep = 0]

\* the controller after its constructor: the fields the constructor and its
\* reset() assign; dragStep and dragMechanism are not assigned there.
\* tuneNumbers keeps the tuneNumber of each logical element, which is a field
\* of the element and undefined until a tune's engraver makes the element.
NewController(dragging, nListeners) ==
  reset([dragging |-> dragging,
         listeners |-> nListeners,
         selected |-> << >>,
         staffgroups |-> << >>,
         tuneNumbers |-> [a \in AbsElIds |-> Undefined],
         history |-> << >>,
         currentAbsEl |-> 0,
         dragTarget |-> 0,
         dragMechanism |-> "undefined",
         dragMouseStart |-> <<0, 0>>,
         dragStep |-> Undefined,
         dragYStep |-> 0])

World(c, d) == [ctl |-> c, dom |-> d, calls |-> << >>, threw |-> FALSE]

---------------------------------------------------------------------------
(* The history index: bounding boxes and the hit test.                     *)

\* getBBox() of a primitive, rounded as getDim rounds it
BBoxDim(s) ==
  [set |-> TRUE,
   left |-> RoundDiv(SvgEls[s].x2, 2),
   top |-> RoundDiv(SvgEls[s].y2, 2),
   right |-> RoundDiv(SvgEls[s].x2 + SvgEls[s].w2, 2),
   bottom |-> RoundDiv(SvgEls[s].y2 + SvgEls[s].h2, 2)]

\* getDim calling getBBox() whether or not the entry has its box
getDimUncached(el) ==
  [el EXCEPT !.dim = BBoxDim(el.svgEl), !.bboxCalls = @ + 1]

\* getDim: the entry with its box computed unless it already has one
getDim(el) ==
  IF el.dim.set THEN el
  ELSE [el EXCEPT !.dim = BBoxDim(el.svgEl), !.bboxCalls = @ + 1]

\* the direct-hit test of mouseDown
DirectHit(dim, x, y) == dim.left < x /\ dim.right > x /\ dim.top < y /\ dim.bottom > y

\* dx*dx + dy*dy of mouseDown's distance to an entry: each of dx, dy is the
\* distance to the nearer of the box's two edges in that direction
HypotenuseSq(dim, x, y) ==
  LET dx == IF Abs(x - dim.left) > Abs(x - dim.right) THEN Abs(x - dim.right)
                                                      ELSE Abs(x - dim.left)
      dy == IF Abs(y - dim.top) > Abs(y - dim.bottom) THEN Abs(y - dim.bottom)
                                                      ELSE Abs(y - dim.top)
  IN dx * dx + dy * dy

\* minDistance is kept as its square; init marks the starting value 9999999,
\* which every distance on the modelled page is below
StartDistance == [init |-> TRUE, sq |-> 0]
Positive(minDistance) == minDistance.init \/ minDistance.sq > 0
Closer(hypSq, minDistance) == minDistance.init \/ hypSq < minDistance.sq

\* the scan loop of mouseDown from index i on: the history with the boxes it
\* computed, and the closest index (0: none)
RECURSIVE ScanHistory(_, _, _, _, _, _)
ScanHistory(history, i, minDistance, closestIndex, x, y) ==
  IF ~(i <= Len(history) /\ Positive(minDistance))
  THEN [history |-> history, closestIndex |-> closestIndex]
  ELSE IF ~history[i].selectable
  THEN ScanHistory(history, i + 1, minDistance, closestIndex, x, y)
  ELSE LET el == getDim(history[i])
           h2 == [history EXCEPT ![i] = el]
           hyp == HypotenuseSq(el.dim, x, y)
       IN IF DirectHit(el.dim, x, y)
          THEN ScanHistory(h2, i + 1, [init |-> FALSE, sq |-> 0], i, x, y)
          ELSE IF Closer(hyp, minDistance)
          THEN ScanHistory(h2, i + 1, [init |-> FALSE, sq |-> hyp], i, x, y)
          ELSE ScanHistory(h2, i + 1, minDistance, closestIndex, x, y)

\* absEl.highlight(undefined, color) and absEl.unhighlight()
Highlight(d, a, color) == [d EXCEPT !.highlight[a] = color]
Unhighlight(d, a) == [d EXCEPT !.highlight[a] = "none"]

\* the part of mouseDown that arms the entry at index
ArmTarget(w, c, index, x, y) ==
  LET target == c.history[index]
      c2 == [c EXCEPT !.dragTarget = index,
                      !.dragMechanism = "mouse",
                      !.dragMouseStart = <<x, y>>]
  IN IF c2.dragging /\ target.isDraggable
     THEN [w EXCEPT !.ctl = c2,
                    !.dom = Highlight([w.dom EXCEPT !.globalClass = TRUE],
                                      target.absEl, "dragColor")]
     ELSE [w EXCEPT !.ctl = c2]

\* mouseDown with closestIndex starting at the last index instead of -1
mouseDownFromLast(w, x, y) ==
  LET scan == ScanHistory(w.ctl.history, 1, StartDistance, Len(w.ctl.history), x, y)
      c1 == [w.ctl EXCEPT !.history = scan.history]
  IN IF scan.closestIndex = 0
     THEN [w EXCEPT !.ctl = c1]
     ELSE ArmTarget(w, c1, scan.closestIndex, x, y)

mouseDown(w, x, y) ==
  LET scan == ScanHistory(w.ctl.history, 1, StartDistance, 0, x, y)
      c1 == [w.ctl EXCEPT !.history = scan.history]
  IN IF scan.closestIndex = 0
     THEN [w EXCEPT !.ctl = c1]
     ELSE ArmTarget(w, c1, scan.closestIndex, x, y)

---------------------------------------------------------------------------
(* Selection and the listeners' notification.                              *)

RECURSIVE UnhighlightAll(_, _)
UnhighlightAll(d, selected) ==
  IF selected = << >> THEN d
  ELSE UnhighlightAll(Unhighlight(d, Head(selected)), Tail(selected))

\* clearSelection that forgets the list without unhighlighting its elements
clearSelectionKeepHighlight(w) ==
  [w EXCEPT !.ctl.selected = << >>]

clearSelection(w) ==
  [w EXCEPT !.dom = UnhighlightAll(w.dom, w.ctl.selected),
            !.ctl.selected = << >>]

Digits == <<"0", "1", "2", "3", "4", "5", "6", "7", "8", "9">>
IsDigit(ch) == \E d \in 1 .. 10 : Digits[d] = ch
DigitValue(ch) == (CHOOSE d \in 1 .. 10 : Digits[d] = ch) - 1

\* the length of the longest prefix of digits
RECURSIVE DigitPrefix(_)
DigitPrefix(str) ==
  IF str # << >> /\ IsDigit(Head(str)) THEN 1 + DigitPrefix(Tail(str)) ELSE 0

RECURSIVE DecimalValue(_)
DecimalValue(str) ==
  IF str = << >> THEN 0
  ELSE 10 * DecimalValue(SubSeq(str, 1, Len(str) - 1)) + DigitValue(str[Len(str)])

\* parseInt(str, 10): an optional sign, then the leading digits; NaN without one
parseInt(str) ==
  LET signed == str # << >> /\ Head(str) \in {"-", "+"}
      body == IF signed THEN Tail(str) ELSE str
      n == DigitPrefix(body)
      value == DecimalValue(SubSeq(body, 1, n))
  IN IF n = 0 THEN NaN
     ELSE IF signed /\ Head(str) = "-" THEN Num(0 - value) ELSE Num(value)

RECURSIVE NatToString(_)
NatToString(n) ==
  IF n < 10 THEN <<Digits[n + 1]>>
  ELSE NatToString(n \div 10) \o <<Digits[(n % 10) + 1]>>

\* '' + num
NumberToString(a) ==
  IF ~IsNum(a) THEN <<"N", "a", "N">>
  ELSE IF a.v < 0 THEN <<"-">> \o NatToString(0 - a.v)
  ELSE NatToString(a.v)

IsPrefix(pre, str) == Len(pre) <= Len(str) /\ SubSeq(str, 1, Len(pre)) = pre

NoAnalysis == [voice |-> Undefined, line |-> Undefined, measure |-> Undefined]

\* findNumber: analysis with field name set when klass is match followed by
\* the decimal form of a number
findNumber(klass, match, analysis, name) ==
  IF IsPrefix(match, klass)
  THEN LET value == SubSeq(klass, Len(match) + 1, Len(klass))
           num == parseInt(value)
       IN IF NumberToString(num) = value
          THEN [analysis EXCEPT ![name] = num]
          ELSE analysis
  ELSE analysis

\* the class names of an element's groups, each once, in order of first
\* appearance (the keys of classObj)
RECURSIVE AddNames(_, _)
AddNames(classes, names) ==
  IF names = << >> THEN classes
  ELSE AddNames(IF \E i \in DOMAIN classes : classes[i] = Head(names)
                THEN classes ELSE Append(classes, Head(names)),
                Tail(names))

RECURSIVE ElemsetClasses(_, _)
ElemsetClasses(classes, elemset) ==
  IF elemset = << >> THEN classes
  ELSE ElemsetClasses(IF Head(elemset).null THEN classes
                      ELSE AddNames(classes, Head(elemset).klass),
                      Tail(elemset))

RECURSIVE Analyse(_, _)
Analyse(analysis, classes) ==
  IF classes = << >> THEN analysis
  ELSE Analyse(findNumber(Head(classes), <<"abcjs-", "m">>,
                 findNumber(Head(classes), <<"abcjs-", "l">>,
                   findNumber(Head(classes), <<"abcjs-", "v">>, analysis, "voice"),
                   "line"),
                 "measure"),
               Tail(classes))

\* the call notifySelect makes to listener fn for logical element a
ListenerCall(c, fn, a, dragStep) ==
  LET classes == ElemsetClasses(<< >>, AbsEls[a].elemset)
  IN [fn |-> fn, abcelem |-> a, tuneNumber |-> c.tuneNumbers[a],
      classes |-> classes, analysis |-> Analyse(NoAnalysis, classes),
      dragStep |-> dragStep]

\* notifySelect reads target.absEl.elemset: it throws when the target (an index
\* of the history, 0 for null) or its logical element is null
NotifyThrows(c, target) == target = 0 \/ c.history[target].absEl = 0

notifySelect(w, target, dragStep) ==
  IF NotifyThrows(w.ctl, target)
  THEN [w EXCEPT !.threw = TRUE]
  ELSE [w EXCEPT !.calls = @ \o [fn \in 1 .. w.ctl.listeners |->
                                   ListenerCall(w.ctl, fn, w.ctl.history[target].absEl, dragStep)]]

---------------------------------------------------------------------------
(* The pointer and keyboard handlers.                                      *)

\* the focus handler; a throw in notifySelect leaves dragStep as it is
elementFocused(w) ==
  IF w.ctl.dragMechanism = "keyboard" /\ NotStrictlyZero(w.ctl.dragStep)
  THEN IF NotifyThrows(w.ctl, w.ctl.dragTarget)
       THEN notifySelect(w, w.ctl.dragTarget, w.ctl.dragStep)
       ELSE [notifySelect(w, w.ctl.dragTarget, w.ctl.dragStep) EXCEPT !.ctl.dragStep = Num(0)]
  ELSE [w EXCEPT !.ctl.dragStep = Num(0)]

\* engraveTune gives a tabindex and the key and focus handlers to the
\* primitives of selectable entries when dragging is on
Focusable(c, s) ==
  c.dragging /\ \E i \in DOMAIN c.history : c.history[i].svgEl = s /\ c.history[i].selectable

\* svgEl.focus(): the focus event is dispatched at once, and a throw in its
\* handler is reported without reaching the caller
FocusElement(w, s) ==
  IF Focusable(w.ctl, s) /\ w.dom.focus # s
  THEN elementFocused([w EXCEPT !.dom.focus = s])
  ELSE w

\* mouseMove without the test of the mechanism that armed the target
mouseMoveAnyMechanism(w, x, y) ==
  IF w.ctl.dragTarget = 0 \/ ~w.ctl.dragging
     \/ ~w.ctl.history[w.ctl.dragTarget].isDraggable
  THEN w
  ELSE LET yDist == RoundDiv(y - w.ctl.dragMouseStart[2], STEP)
       IN IF yDist # w.ctl.dragYStep
          THEN [w EXCEPT !.ctl.dragStep = Num(yDist),
                         !.dom.transform[w.ctl.history[w.ctl.dragTarget].svgEl] =
                            [set |-> TRUE, off |-> Num(yDist * STEP)]]
          ELSE w

mouseMove(w, x, y) ==
  IF w.ctl.dragTarget = 0 \/ ~w.ctl.dragging
     \/ ~w.ctl.history[w.ctl.dragTarget].isDraggable \/ w.ctl.dragMechanism # "mouse"
  THEN w
  ELSE LET yDist == RoundDiv(y - w.ctl.dragMouseStart[2], STEP)
       IN IF yDist # w.ctl.dragYStep
          THEN [w EXCEPT !.ctl.dragStep = Num(yDist),
                         !.dom.transform[w.ctl.history[w.ctl.dragTarget].svgEl] =
                            [set |-> TRUE, off |-> Num(yDist * STEP)]]
          ELSE w

mouseUp(w) ==
  IF w.ctl.dragTarget = 0 THEN w
  ELSE LET target == w.ctl.history[w.ctl.dragTarget]
           w1 == clearSelection(w)
           w2 == IF target.absEl # 0 /\ AbsEls[target.absEl].hasHighlight
                 THEN [w1 EXCEPT !.ctl.selected = <<target.absEl>>,
                                 !.dom = Highlight(w1.dom, target.absEl, "selectionColor")]
                 ELSE w1
           w3 == notifySelect(w2, w2.ctl.dragTarget, w2.ctl.dragStep)
           w4 == FocusElement(w3, target.svgEl)
       IN IF NotifyThrows(w2.ctl, w2.ctl.dragTarget) THEN w3
          ELSE [w4 EXCEPT !.ctl.dragTarget = 0, !.dom.globalClass = FALSE]

\* the arrow keys' common part: step is Decrement for up, Increment for down
ArrowKey(w, index, step(_)) ==
  LET w1 == [w EXCEPT !.ctl.dragTarget = index, !.ctl.dragMechanism = "keyboard"]
      target == w1.ctl.history[index]
  IN IF target.isDraggable
     THEN LET d == IF w1.ctl.dragging
                   THEN Highlight(w1.dom, target.absEl, "dragColor")
                   ELSE w1.dom
              dragStep == step(w1.ctl.dragStep)
          IN [w1 EXCEPT !.ctl.dragStep = dragStep,
                        !.dom = [d EXCEPT !.transform[target.svgEl] =
                                   [set |-> TRUE, off |-> Times(dragStep, STEP)]]]
     ELSE w1

\* keyboardSelection with the two arrow keys' cases exchanged
keyboardSelectionSwapped(w, index, keyCode) ==
  CASE keyCode \in {13, 32} ->
         mouseUp([w EXCEPT !.ctl.dragTarget = index, !.ctl.dragMechanism = "keyboard"])
    [] keyCode = 38 -> ArrowKey(w, index, Increment)
    [] keyCode = 40 -> ArrowKey(w, index, Decrement)
    [] keyCode = 9 -> IF NotStrictlyZero(w.ctl.dragStep) THEN mouseUp(w) ELSE w
    [] OTHER -> w

\* the keyup handler of the primitive of history entry index
keyboardSelection(w, index, keyCode) ==
  CASE keyCode \in {13, 32} ->
         mouseUp([w EXCEPT !.ctl.dragTarget = index, !.ctl.dragMechanism = "keyboard"])
    [] keyCode = 38 -> ArrowKey(w, index, Decrement)
    [] keyCode = 40 -> ArrowKey(w, index, Increment)
    [] keyCode = 9 -> IF NotStrictlyZero(w.ctl.dragStep) THEN mouseUp(w) ELSE w
    [] OTHER -> w

\* An event is handed to every handler attached for it, in turn: n is the
\* number of times engraveTune attached the handler.
RECURSIVE mouseDownBy(_, _, _, _)
mouseDownBy(w, x, y, n) ==
  IF n = 0 THEN w ELSE mouseDownBy(mouseDown(w, x, y), x, y, n - 1)

RECURSIVE mouseUpBy(_, _)
mouseUpBy(w, n) == IF n = 0 THEN w ELSE mouseUpBy(mouseUp(w), n - 1)

RECURSIVE keyboardSelectionBy(_, _, _, _)
keyboardSelectionBy(w, index, keyCode, n) ==
  IF n = 0 THEN w
  ELSE keyboardSelectionBy(keyboardSelection(w, index, keyCode), index, keyCode, n - 1)

---------------------------------------------------------------------------
(* The interaction specification: one engraved page and the events the     *)
(* browser delivers to the handlers engraveTune attached.                  *)

KeyCodes == {13, 32, 38, 40, 9, 65}

\* the last event: its name, the pointer height of a pointer-move, the key of
\* a key release, and whether its handler threw (x is the pointer's column,
\* which only the hit-test specification records)
Event(name, y, key) == [name |-> name, x |-> 0, y |-> y, key |-> key, threw |-> FALSE]

\* the columns the interaction specification's pointer visits
DragXs == {2, 6}

\* the state before an event's handler runs: no listener called yet
Now == World(ctl, dom)

\* the spacing negotiation is at rest while the page is interacted with
SpIdle == [pc |-> "idle"]

\* no triplet is being laid out while the page is interacted with
TrIdle == [pc |-> "idle"]

\* no engraving run is followed phase by phase
RunIdle == [pc |-> "idle"]

Apply(w, e) ==
  /\ ctl' = w.ctl
  /\ dom' = w.dom
  /\ calls' = w.calls
  /\ ev' = [e EXCEPT !.threw = w.threw]
  /\ UNCHANGED <<sp, tr, run>>

\* history index of the entry whose primitive is s (0: none)
IndexOf(c, s) ==
  IF \E i \in DOMAIN c.history : c.history[i].svgEl = s
  THEN CHOOSE i \in DOMAIN c.history : c.history[i].svgEl = s
  ELSE 0

\* the voice of a tune's staff line: the elements of the staff that its
\* drawing draws (the plain object of a triplet mark is not one), each once,
\* in the order they are first drawn
RECURSIVE VoiceOf(_, _)
VoiceOf(drawing, seen) ==
  IF drawing = << >> THEN << >>
  ELSE LET a == SvgEls[Head(drawing)].absEl
       IN IF a \in seen \/ ~AbsEls[a].hasHighlight
          THEN VoiceOf(Tail(drawing), seen)
          ELSE <<a>> \o VoiceOf(Tail(drawing), seen \union {a})

\* the engraver of a tune gives its tuneNumber to the logical elements it
\* makes for the tune
Stamp(tuneNumbers, drawing, tuneNumber) ==
  [a \in AbsElIds |->
     IF \E k \in DOMAIN drawing : SvgEls[drawing[k]].absEl = a
     THEN tuneNumber ELSE tuneNumbers[a]]

\* the end of engraveTune: with dragging on, the key and focus handlers are
\* added to the primitive of every selectable entry of the history, and the
\* pointer handlers are added to the svg
AttachHandlers(c, d) ==
  [d EXCEPT !.listening = TRUE,
            !.handlers = @ + 1,
            !.keyHandlers =
               [s \in SvgIds |->
                  IF c.dragging /\ \E h \in DOMAIN c.history :
                                     c.history[h].selectable /\ c.history[h].svgEl = s
                  THEN @[s] + 1 ELSE @[s]]]

\* engraveTune of a tune of one staff line with one voice, by an engraver
\* made with tuneNumber: its primitives are drawn and recorded,
\* this.staffgroups, emptied first, gets the line (a tune that draws no
\* element of a staff has no staff line), and the handlers are attached
engraveTune(w, drawing, tuneNumber) ==
  LET c == [DrawAll(w.ctl, drawing) EXCEPT
              !.staffgroups = IF VoiceOf(drawing, {}) = << >> THEN << >>
                              ELSE << << VoiceOf(drawing, {}) >> >>,
              !.tuneNumbers = Stamp(@, drawing, tuneNumber)]
  IN [w EXCEPT !.ctl = c, !.dom = AttachHandlers(c, w.dom)]

\* the loop of engraveABC over the tunes from the one of index i on
RECURSIVE engraveLoop(_, _, _, _)
engraveLoop(w, abctunes, i, tuneNumber) ==
  IF i >= Len(abctunes) THEN w
  ELSE LET number == IF tuneNumber = Undefined THEN Num(i) ELSE tuneNumber
       IN engraveLoop(engraveTune(w, abctunes[i + 1], number), abctunes, i + 1, number)

\* engraveABC(abctunes, tuneNumber) of a list of tunes: one reset, then
\* engraveTune on each
engraveTunes(w, abctunes, tuneNumber) ==
  engraveLoop([w EXCEPT !.ctl = reset(w.ctl), !.dom = FreshDom], abctunes, 0, tuneNumber)

\* engraveABC of a tune whose drawing records the primitives of drawing
engraveABC(w, drawing) == engraveTunes(w, <<drawing>>, Undefined)

\* the tunes the interaction specification engraves, each as the primitives
\* its drawing records: an empty tune, a lone triplet mark, a note, a note and
\* a rest, and a note with its text and a triplet mark
Scores == { << >>, <<6>>, <<1>>, <<1, 4>>, <<3, 1, 6>> }

\* the page is engraved once
EngraveABC ==
  /\ ~dom.listening
  /\ \E drawing \in Scores : Apply(engraveABC(Now, drawing), Event("engraveABC", 0, 0))

MouseDown ==
  /\ dom.listening
  /\ \E x \in DragXs, y \in 0 .. MaxDragY :
       Apply(mouseDown(Now, x, y), Event("mouseDown", 0, 0))

MouseMove ==
  /\ dom.listening
  /\ \E x \in DragXs, y \in 0 .. MaxDragY :
       Apply(mouseMove(Now, x, y), Event("mouseMove", y, 0))

MouseUp ==
  /\ dom.listening
  /\ Apply(mouseUp(Now), Event("mouseUp", 0, 0))

\* the browser moves the focus to a focusable primitive (by Tab or a click)
Focus ==
  \E s \in SvgIds :
    /\ Focusable(ctl, s)
    /\ dom.focus # s
    /\ Apply(FocusElement(Now, s), Event("focus", 0, 0))

\* the focus leaves the page; no handler listens to that
Blur ==
  /\ dom.focus # 0
  /\ Apply([Now EXCEPT !.dom.focus = 0], Event("blur", 0, 0))

\* a key is released on the focused primitive
KeyUp ==
  /\ dom.focus # 0
  /\ \E key \in KeyCodes :
       /\ key = 38 => ~(IsNum(ctl.dragStep) /\ ctl.dragStep.v <= 0 - MaxStep)
       /\ key = 40 => ~(IsNum(ctl.dragStep) /\ ctl.dragStep.v >= MaxStep)
       /\ Apply(keyboardSelection(Now, IndexOf(ctl, dom.focus), key), Event("keyup", 0, key))

Init ==
  /\ \E dragging \in BOOLEAN, n \in 0 .. MaxListeners : ctl = NewController(dragging, n)
  /\ dom = FreshDom
  /\ calls = << >>
  /\ ev = Event("new", 0, 0)
  /\ sp = SpIdle
  /\ tr = TrIdle
  /\ run = RunIdle

Next ==
  \/ EngraveABC
  \/ MouseDown
  \/ MouseMove
  \/ MouseUp
  \/ Focus
  \/ Blur
  \/ KeyUp

Spec == Init /\ [][Next]_vars

---------------------------------------------------------------------------
(* The hit-test specification: every drawing of up to MaxHitHist distinct  *)
(* primitives, in every order, a pointer-down at any point of the freshly  *)
(* engraved page, and the pointer-up that follows it.                      *)

HitInit ==
  /\ \E dragging \in BOOLEAN, drawing \in Drawings(MaxHitHist) :
       LET w == engraveABC(World(NewController(dragging, 1), FreshDom), drawing)
       IN ctl = w.ctl /\ dom = w.dom
  /\ calls = << >>
  /\ ev = Event("engraveABC", 0, 0)
  /\ sp = SpIdle
  /\ tr = TrIdle
  /\ run = RunIdle

HitMouseDown ==
  /\ ev.name = "engraveABC"
  /\ \E x \in 0 .. MaxX, y \in 0 .. MaxY :
       Apply(mouseDown(Now, x, y), [Event("mouseDown", y, 0) EXCEPT !.x = x])

HitMouseUp ==
  /\ ev.name = "mouseDown"
  /\ Apply(mouseUp(Now), [ev EXCEPT !.name = "mouseUp"])

HitNext == HitMouseDown \/ HitMouseUp

SpecHit == HitInit /\ [][HitNext]_vars

---------------------------------------------------------------------------
(* Hit-testing claims.                                                     *)

Selectables(c) == { i \in DOMAIN c.history : c.history[i].selectable }

\* the bounding box of history entry i
Box(c, i) == getDim(c.history[i]).dim

StrictlyInside(b, x, y) == b.left < x /\ x < b.right /\ b.top < y /\ y < b.bottom

\* the entries whose box holds the point strictly inside
Containing(c, x, y) == { i \in Selectables(c) : StrictlyInside(Box(c, i), x, y) }

\* the square of the distance from the point to the box, each coordinate
\* clamped to the box first
Clamp(v, lo, hi) == IF v < lo THEN lo ELSE IF v > hi THEN hi ELSE v
ClampedSq(b, x, y) ==
  (x - Clamp(x, b.left, b.right)) * (x - Clamp(x, b.left, b.right))
  + (y - Clamp(y, b.top, b.bottom)) * (y - Clamp(y, b.top, b.bottom))

\* C1: a pointer-down strictly inside the box of exactly one selectable entry
\* makes that entry the drag target, whatever the other boxes and their order.
C1_DirectHit ==
  ev.name = "mouseDown" =>
    \A i \in Selectables(ctl) :
      Containing(ctl, ev.x, ev.y) = {i} => ctl.dragTarget = i

\* C2: a pointer-down strictly inside no selectable box arms a selectable entry
\* whose box is at the minimum clamped distance from the point.
C2_NearestClamped ==
  (ev.name = "mouseDown" /\ Selectables(ctl) # {} /\ Containing(ctl, ev.x, ev.y) = {}) =>
    /\ ctl.dragTarget \in Selectables(ctl)
    /\ \A j \in Selectables(ctl) :
         ClampedSq(Box(ctl, ctl.dragTarget), ev.x, ev.y) <= ClampedSq(Box(ctl, j), ev.x, ev.y)

\* C3: on a page without selectable entries no pointer-down arms a target, and
\* no event notifies a listener, selects or highlights anything.
C3_NothingSelectable ==
  (dom.listening /\ Selectables(ctl) = {}) =>
    /\ ctl.dragTarget = 0
    /\ calls = << >>
    /\ ctl.selected = << >>
    /\ \A a \in AbsElIds : dom.highlight[a] = "none"
    /\ ~dom.globalClass

\* a pointer-up after pointer-downs on a page that holds only a triplet mark
C3_Witness ==
  /\ ev.name = "mouseUp"
  /\ ctl.history # << >>
  /\ Selectables(ctl) = {}
  /\ ctl.dragMouseStart = <<-1, -1>>

---------------------------------------------------------------------------
(* Interaction claims.                                                     *)

Range(seq) == { seq[i] : i \in DOMAIN seq }

\* the decimal numeral of an integer
Numeral(n) == IF n < 0 THEN <<"-">> \o NatToString(0 - n) ELSE NatToString(n)

\* the class names of logical element a
ClassNames(a) ==
  UNION { Range(AbsEls[a].elemset[g].klass) :
            g \in { h \in DOMAIN AbsEls[a].elemset : ~AbsEls[a].elemset[h].null } }

\* the index a list of class names gives for a prefix: the number of the last
\* name that is the prefix followed by the numeral of a number, if there is one
IndexRange == -20 .. 20
Numbered(classes, prefix) ==
  { k \in DOMAIN classes : \E n \in IndexRange : classes[k] = prefix \o Numeral(n) }
IndexFor(classes, prefix) ==
  IF Numbered(classes, prefix) = {} THEN Undefined
  ELSE LET k == CHOOSE i \in Numbered(classes, prefix) :
                  \A j \in Numbered(classes, prefix) : j <= i
       IN Num(CHOOSE n \in IndexRange : classes[k] = prefix \o Numeral(n))

\* a call that tells a listener of logical element a and step count dragStep
TellsOf(call, a, dragStep) ==
  /\ call.abcelem = a
  /\ call.tuneNumber = ctl.tuneNumbers[a]
  /\ Range(call.classes) = ClassNames(a)
  /\ \A i, j \in DOMAIN call.classes : i # j => call.classes[i] # call.classes[j]
  /\ call.analysis.voice = IndexFor(call.classes, <<"abcjs-", "v">>)
  /\ call.analysis.line = IndexFor(call.classes, <<"abcjs-", "l">>)
  /\ call.analysis.measure = IndexFor(call.classes, <<"abcjs-", "m">>)
  /\ call.dragStep = dragStep

\* every listener of c is called, and each call made tells of a and dragStep
AllTold(c, made, a, dragStep) ==
  /\ \A k \in DOMAIN made : made[k].fn \in 1 .. c.listeners /\ TellsOf(made[k], a, dragStep)
  /\ \A fn \in 1 .. c.listeners : \E k \in DOMAIN made : made[k].fn = fn

\* the step from an armed state that finalizes on history entry t with the
\* step count dragStep: the earlier selection is cleared, the target's element
\* is the selection, the listeners are told, and the controller is idle
Finalized(t, dragStep) ==
  /\ ctl'.selected = <<t.absEl>>
  /\ dom'.highlight[t.absEl] = "selectionColor"
  /\ \A a \in Range(ctl.selected) \ {t.absEl} : dom'.highlight[a] = "none"
  /\ AllTold(ctl, calls', t.absEl, dragStep)
  /\ ctl'.dragTarget = 0

\* C4: a pointer-up with an armed target clears the earlier selection, selects
\* the target's element, tells every listener of the target's element, tune,
\* class names, parsed indices and the step count, and leaves the controller
\* idle; a pointer-up without a target changes nothing.
C4_PointerUpFinalizes ==
  [][ev'.name = "mouseUp" =>
        IF ctl.dragTarget = 0
        THEN ctl' = ctl /\ dom' = dom /\ calls' = << >>
        ELSE Finalized(ctl.history[ctl.dragTarget], ctl.dragStep)]_vars

\* a pointer-up that selected a dragged note and told a listener of its parsed
\* indices and its step
C4_Witness ==
  /\ ev.name = "mouseUp"
  /\ ctl.dragTarget = 0
  /\ ctl.selected = <<1>>
  /\ dom.highlight[1] = "selectionColor"
  /\ dom.highlight[3] = "none"
  /\ Len(calls) = ctl.listeners
  /\ calls # << >>
  /\ calls[1].analysis = [voice |-> Num(0), line |-> Num(0), measure |-> Num(12)]
  /\ calls[1].dragStep = Num(1)

\* a draggable target is armed by the pointer in drag mode
PointerDragging(c) ==
  /\ c.dragTarget # 0
  /\ c.dragging
  /\ c.history[c.dragTarget].isDraggable
  /\ c.dragMechanism = "mouse"

\* C5: while a draggable target is dragged by the pointer, after each
\* pointer-move the step count is round((currentY - originY) / STEP), 0 when the
\* pointer is back within half a step of its origin, and the target's transform
\* offset is that step count times STEP.
C5_StepFollowsPointer ==
  (ev.name = "mouseMove" /\ PointerDragging(ctl)) =>
    LET yDist == RoundDiv(ev.y - ctl.dragMouseStart[2], STEP)
    IN /\ ctl.dragStep = Num(yDist)
       /\ dom.transform[ctl.history[ctl.dragTarget].svgEl] =
            [set |-> TRUE, off |-> Num(yDist * STEP)]

EnterOrSpace(e) == e.name = "keyup" /\ e.key \in {13, 32}

\* C6: every finalization and every reset leaves no drag target and the step
\* count 0, so a pointer-up right after a pointer-down, or Enter right after a
\* finalization or a focus, tells the listeners of step count 0.
C6_ClearedOnRelease ==
  [][/\ ((ev'.name = "mouseUp" /\ ctl.dragTarget # 0) \/ EnterOrSpace(ev')
            \/ ev'.name = "engraveABC")
          => (ctl'.dragTarget = 0 /\ ctl'.dragStep = Num(0))
     /\ ((ev.name = "mouseDown" /\ ev'.name = "mouseUp")
            \/ ((ev.name \in {"mouseUp", "focus"} \/ EnterOrSpace(ev)) /\ EnterOrSpace(ev')))
          => \A k \in DOMAIN calls' : calls'[k].dragStep = Num(0)]_vars

\* the history entry whose primitive has the focus
Focused(c, d) == c.history[IndexOf(c, d.focus)]

\* the step an arrow key makes on the focused entry: the step count moves by
\* delta and the entry's transform follows it when the entry is draggable, and
\* neither changes when it is not
ArrowStep(delta) ==
  IF Focused(ctl, dom).isDraggable
  THEN /\ IsNum(ctl.dragStep)
       /\ ctl'.dragStep = Num(ctl.dragStep.v + delta)
       /\ dom'.transform[Focused(ctl, dom).svgEl] =
            [set |-> TRUE, off |-> Num((ctl.dragStep.v + delta) * STEP)]
  ELSE /\ ctl'.dragStep = ctl.dragStep
       /\ dom'.transform = dom.transform

\* C7 as stated: Up adds one step, Down takes one away.
C7_UpIncrements ==
  [][(ev'.name = "keyup" /\ ev'.key \in {38, 40}) =>
        ArrowStep(IF ev'.key = 38 THEN 1 ELSE -1)]_vars

\* C7 (amended): on a draggable focused target each Up key takes one from the
\* step count and each Down key adds one, and the target's transform offset is
\* then the step count times STEP; on a target that is not draggable neither
\* changes.
C7_UpDecrements ==
  [][(ev'.name = "keyup" /\ ev'.key \in {38, 40}) =>
        ArrowStep(IF ev'.key = 38 THEN -1 ELSE 1)]_vars

\* an Up key has moved the focused note one step up from 0
C7_Witness ==
  /\ ev.name = "keyup"
  /\ ev.key = 38
  /\ dom.focus = 1
  /\ ctl.dragTarget # 0
  /\ ctl.dragStep = Num(-1)
  /\ dom.transform[1] = [set |-> TRUE, off |-> Num(0 - STEP)]

\* a keyboard drag of the focused entry is under way with a step count other
\* than 0
KeyboardDragging(c, d) ==
  /\ c.dragMechanism = "keyboard"
  /\ c.dragTarget # 0
  /\ d.focus = c.history[c.dragTarget].svgEl
  /\ NotStrictlyZero(c.dragStep)

\* C8: when the focus leaves a keyboard-dragged target whose step count is not
\* 0, and on Enter or Space, the interaction is finalized as by pointer-up: the
\* selection is the target's element alone, each listener is told once of the
\* target and its step count, and no drag target remains.
C8_BlurFinalizes ==
  [][/\ (KeyboardDragging(ctl, dom) /\ dom'.focus # dom.focus)
          => (Finalized(ctl.history[ctl.dragTarget], ctl.dragStep)
              /\ Len(calls') = ctl.listeners)
     /\ EnterOrSpace(ev')
          => (Finalized(Focused(ctl, dom), ctl.dragStep)
              /\ Len(calls') = ctl.listeners)]_vars

---------------------------------------------------------------------------
(* Rational numbers, for the widths and coefficients of horizontal layout: *)
(* [n |-> numerator, d |-> denominator > 0], in lowest terms.              *)

RECURSIVE Gcd(_, _)
Gcd(a, b) == IF b = 0 THEN a ELSE Gcd(b, a % b)

Rat(n, d) ==
  LET sn == IF d < 0 THEN 0 - n ELSE n
      sd == Abs(d)
      g == Gcd(Abs(sn), sd)
  IN [n |-> sn \div g, d |-> sd \div g]

Int2Rat(i) == [n |-> i, d |-> 1]
RatAdd(p, q) == Rat(p.n * q.d + q.n * p.d, p.d * q.d)
RatSub(p, q) == Rat(p.n * q.d - q.n * p.d, p.d * q.d)
RatMul(p, q) == Rat(p.n * q.n, p.d * q.d)
RatDiv(p, q) == Rat(p.n * q.d, p.d * q.n)
RatLess(p, q) == p.n * q.d < q.n * p.d
RatAbs(p) == [n |-> Abs(p.n), d |-> p.d]

---------------------------------------------------------------------------
(* Horizontal spacing of one staff line.                                   *)

\* the number of layout passes setXSpacing allows
MaxPasses == 8
\* the largest coefficient * minSpace calcHorizontalSpacing lets through
MaxMinSpace == 50
\* spacing.SPACE (abc_spacing.js is not part of the sources)
SPACE == 10

\* the longest voice the spacing specification lays out
MaxElems == 4

\* The kinds of element of a voice: the fixed gap and the number of spacing
\* units in front of it, its width, its rest type and its number of children.
ElemKinds ==
  << [gap |-> 4, units |-> 1, w |-> 8, rest |-> "none", kids |-> 1],
     [gap |-> 4, units |-> 3, w |-> 8, rest |-> "none", kids |-> 2],
     [gap |-> 2, units |-> 0, w |-> 2, rest |-> "none", kids |-> 1],
     [gap |-> 4, units |-> 2, w |-> 6, rest |-> "whole", kids |-> 1] >>

\* the voices of up to n elements
Voices(n) == UNION { [1 .. k -> DOMAIN ElemKinds] : k \in 0 .. n }

\* the target widths (this.width + renderer.padding.left) tried
Targets == {14, 30, 127, 200, 400}

\* a coefficient, or null
NoSpace == [null |-> TRUE, q |-> Int2Rat(0)]
Space(q) == [null |-> FALSE, q |-> q]

RECURSIVE SumUnits(_)
SumUnits(voice) ==
  IF voice = << >> THEN 0 ELSE ElemKinds[Head(voice)].units + SumUnits(Tail(voice))

RECURSIVE MinUnits(_)
MinUnits(voice) ==
  IF voice = << >> THEN 1000
  ELSE Min(ElemKinds[Head(voice)].units, MinUnits(Tail(voice)))

\* the x of each element of a voice laid out with coefficient q from x0 on
RECURSIVE LayoutVoice(_, _, _)
LayoutVoice(voice, q, x0) ==
  IF voice = << >> THEN << >>
  ELSE LET k == ElemKinds[Head(voice)]
           x == RatAdd(x0, RatAdd(Int2Rat(k.gap), RatMul(Int2Rat(k.units), q)))
       IN <<[x |-> x, kids |-> [i \in 1 .. k.kids |-> x]]>>
            \o LayoutVoice(Tail(voice), q, RatAdd(x, Int2Rat(k.w)))

\* staffGroup.layout(coefficient): the elements' positions, the line's width
\* w, and the spacing units and least spacing it reports.  The width is
\* affine in the coefficient.
layout(voice, q) ==
  LET els == LayoutVoice(voice, q, Int2Rat(0))
  IN [els |-> els,
      w |-> IF voice = << >> THEN Int2Rat(0)
            ELSE RatAdd(els[Len(els)].x, Int2Rat(ElemKinds[voice[Len(voice)]].w)),
      spacingUnits |-> SumUnits(voice),
      minSpace |-> MinUnits(voice)]

\* the short-last-line test of calcHorizontalSpacing: lineWidth / targetWidth < 0.66
ShortLastLine(isLastLine, stretchLast, targetWidth, lineWidth) ==
  isLastLine /\ RatLess(RatMul(Int2Rat(100), lineWidth), Int2Rat(66 * targetWidth))
  /\ ~stretchLast

\* Math.abs(targetWidth - lineWidth) < 2
NearTarget(targetWidth, lineWidth) ==
  RatLess(RatAbs(RatSub(Int2Rat(targetWidth), lineWidth)), Int2Rat(2))

\* calcHorizontalSpacing without the short-last-line test
calcHorizontalSpacingStretchShort(isLastLine, stretchLast, targetWidth, lineWidth, spacing, spacingUnits, minSpace) ==
  IF NearTarget(targetWidth, lineWidth) THEN NoSpace
  ELSE LET relSpace == RatMul(Int2Rat(spacingUnits), spacing)
           constSpace == RatSub(lineWidth, relSpace)
       IN IF spacingUnits > 0
          THEN LET solved == RatDiv(RatSub(Int2Rat(targetWidth), constSpace),
                                    Int2Rat(spacingUnits))
               IN IF RatLess(Int2Rat(MaxMinSpace), RatMul(solved, Int2Rat(minSpace)))
                  THEN Space(Rat(MaxMinSpace, minSpace))
                  ELSE Space(solved)
          ELSE NoSpace

\* calcHorizontalSpacing clamping the coefficient itself at 50
calcHorizontalSpacingFlatClamp(isLastLine, stretchLast, targetWidth, lineWidth, spacing, spacingUnits, minSpace) ==
  IF ShortLastLine(isLastLine, stretchLast, targetWidth, lineWidth) THEN NoSpace
  ELSE IF NearTarget(targetWidth, lineWidth) THEN NoSpace
  ELSE LET relSpace == RatMul(Int2Rat(spacingUnits), spacing)
           constSpace == RatSub(lineWidth, relSpace)
       IN IF spacingUnits > 0
          THEN LET solved == RatDiv(RatSub(Int2Rat(targetWidth), constSpace),
                                    Int2Rat(spacingUnits))
               IN IF RatLess(Int2Rat(MaxMinSpace), RatMul(solved, Int2Rat(minSpace)))
                  THEN Space(Int2Rat(MaxMinSpace))
                  ELSE Space(solved)
          ELSE NoSpace

\* calcHorizontalSpacing taking the whole line width for the constant part
calcHorizontalSpacingNoRelSpace(isLastLine, stretchLast, targetWidth, lineWidth, spacing, spacingUnits, minSpace) ==
  IF ShortLastLine(isLastLine, stretchLast, targetWidth, lineWidth) THEN NoSpace
  ELSE IF NearTarget(targetWidth, lineWidth) THEN NoSpace
  ELSE IF spacingUnits > 0
  THEN LET solved == RatDiv(RatSub(Int2Rat(targetWidth), lineWidth), Int2Rat(spacingUnits))
       IN IF RatLess(Int2Rat(MaxMinSpace), RatMul(solved, Int2Rat(minSpace)))
          THEN Space(Rat(MaxMinSpace, minSpace))
          ELSE Space(solved)
  ELSE NoSpace

calcHorizontalSpacing(isLastLine, stretchLast, targetWidth, lineWidth, spacing, spacingUnits, minSpace) ==
  IF ShortLastLine(isLastLine, stretchLast, targetWidth, lineWidth) THEN NoSpace
  ELSE IF NearTarget(targetWidth, lineWidth) THEN NoSpace
  ELSE LET relSpace == RatMul(Int2Rat(spacingUnits), spacing)
           constSpace == RatSub(lineWidth, relSpace)
       IN IF spacingUnits > 0
          THEN LET solved == RatDiv(RatSub(Int2Rat(targetWidth), constSpace),
                                    Int2Rat(spacingUnits))
               IN IF RatLess(Int2Rat(MaxMinSpace), RatMul(solved, Int2Rat(minSpace)))
                  THEN Space(Rat(MaxMinSpace, minSpace))
                  ELSE Space(solved)
          ELSE NoSpace

\* the inner loop of centerWholeRests over one voice, from index j on
RECURSIVE CenterFrom(_, _, _)
CenterFrom(voice, els, j) ==
  IF j > Len(voice) - 1 THEN els
  ELSE IF ElemKinds[voice[j]].rest \in {"whole", "multimeasure"}
  THEN LET before == els[j - 1]
           after == els[j + 1]
           midpoint == RatAdd(RatDiv(RatSub(after.x, before.x), Int2Rat(2)), before.x)
           x == RatSub(midpoint, Rat(ElemKinds[voice[j]].w, 2))
       IN CenterFrom(voice, [els EXCEPT ![j] = [x |-> x, kids |-> [i \in DOMAIN @.kids |-> x]]],
                     j + 1)
  ELSE CenterFrom(voice, els, j + 1)

\* centerWholeRests for the staff group's voice
centerWholeRests(voice, els) == CenterFrom(voice, els, 2)

\* setXSpacing at its entry, for a staff line of one voice
EnterSetXSpacing(voice, target, isLastLine, stretchLast) ==
  [pc |-> "loop", voice |-> voice, target |-> target, isLastLine |-> isLastLine,
   stretchLast |-> stretchLast, it |-> 0, newspace |-> Space(Int2Rat(3 * SPACE)),
   els |-> << >>, w |-> Int2Rat(0), spacingUnits |-> 0, minSpace |-> 0,
   passes |-> 0, centered |-> 0]

\* layoutPass with the loop's bound tested as it <= 8
layoutPassOneMore(s) ==
  LET ret == layout(s.voice, s.newspace.q)
      newspace == calcHorizontalSpacing(s.isLastLine, s.stretchLast, s.target, ret.w,
                                        s.newspace.q, ret.spacingUnits, ret.minSpace)
  IN [s EXCEPT !.els = ret.els, !.w = ret.w,
               !.spacingUnits = ret.spacingUnits, !.minSpace = ret.minSpace,
               !.passes = @ + 1,
               !.newspace = newspace,
               !.it = IF newspace.null THEN @ ELSE @ + 1,
               !.pc = IF newspace.null \/ s.it + 1 > MaxPasses THEN "center" ELSE "loop"]

\* one pass of the loop of setXSpacing: the layout, the new coefficient, and
\* the loop's exits
layoutPass(s) ==
  LET ret == layout(s.voice, s.newspace.q)
      newspace == calcHorizontalSpacing(s.isLastLine, s.stretchLast, s.target, ret.w,
                                        s.newspace.q, ret.spacingUnits, ret.minSpace)
  IN [s EXCEPT !.els = ret.els, !.w = ret.w,
               !.spacingUnits = ret.spacingUnits, !.minSpace = ret.minSpace,
               !.passes = @ + 1,
               !.newspace = newspace,
               !.it = IF newspace.null THEN @ ELSE @ + 1,
               !.pc = IF newspace.null \/ s.it + 1 >= MaxPasses THEN "center" ELSE "loop"]

\* the end of setXSpacing
centerPass(s) ==
  [s EXCEPT !.els = centerWholeRests(s.voice, s.els), !.centered = @ + 1, !.pc = "done"]

SpInit ==
  /\ sp = SpIdle
  /\ tr = TrIdle
  /\ run = RunIdle
  /\ ctl = NewController(FALSE, 0)
  /\ dom = FreshDom
  /\ calls = << >>
  /\ ev = Event("new", 0, 0)

\* setXSpacing is called on a staff group
SetXSpacing ==
  /\ sp.pc = "idle"
  /\ \E voice \in Voices(MaxElems), target \in Targets, isLastLine \in BOOLEAN,
        stretchLast \in BOOLEAN :
       sp' = EnterSetXSpacing(voice, target, isLastLine, stretchLast)
  /\ UNCHANGED <<ctl, dom, calls, ev, tr, run>>

LayoutPass ==
  /\ sp.pc = "loop"
  /\ sp' = layoutPass(sp)
  /\ UNCHANGED <<ctl, dom, calls, ev, tr, run>>

CenterRests ==
  /\ sp.pc = "center"
  /\ sp' = centerPass(sp)
  /\ UNCHANGED <<ctl, dom, calls, ev, tr, run>>

SpNext == SetXSpacing \/ LayoutPass \/ CenterRests

SpecSpacing == SpInit /\ [][SpNext]_vars

---------------------------------------------------------------------------
(* Spacing claims.                                                         *)

\* the width of a voice laid out with coefficient 0, the least it can have
RECURSIVE ConstWidth(_)
ConstWidth(voice) ==
  IF voice = << >> THEN 0
  ELSE ElemKinds[Head(voice)].gap + ElemKinds[Head(voice)].w + ConstWidth(Tail(voice))

\* the line of s can be stretched to its target
Stretchable(s) == SumUnits(s.voice) >= 1 /\ s.target > ConstWidth(s.voice)

\* the negotiation of s stopped on the short-last-line policy
StoppedShort(s) == ShortLastLine(s.isLastLine, s.stretchLast, s.target, s.w)

\* the coefficient that reaches the target, times minSpace, is above 50
ClampBinds(s) ==
  (s.target - ConstWidth(s.voice)) * MinUnits(s.voice) > MaxMinSpace * SumUnits(s.voice)

C10_Terminates ==
  /\ [](sp.pc = "loop" => sp.passes < MaxPasses)
  /\ [](sp.pc = "center" => sp.passes \in 1 .. MaxPasses /\ sp.centered = 0)
  /\ [](sp.pc = "done" =>
          /\ sp.passes \in 1 .. MaxPasses
          /\ sp.centered = 1
          /\ (sp.spacingUnits = 0 => sp.passes = 1 /\ sp.newspace.null))
  /\ [][ /\ sp.pc = "loop" =>
              sp'.passes = sp.passes + 1 /\ sp'.pc \in {"loop", "center"}
         /\ sp.pc = "center" => sp'.pc = "done" ]_vars

\* a line without spacing units, away from its target and not stopped by the
\* short-last-line policy, after its single pass
C10_Witness ==
  /\ sp.pc = "done"
  /\ sp.voice # << >>
  /\ sp.spacingUnits = 0
  /\ ~NearTarget(sp.target, sp.w)
  /\ ~StoppedShort(sp)
  /\ sp.passes = 1
  /\ sp.centered = 1

\* the layout of the line of s with the default coefficient, 3 * SPACE
DefaultLayout(s) == layout(s.voice, Int2Rat(3 * SPACE))

\* the line of s is a last line that is not to be stretched and is under 66%
\* of its target with the default coefficient
ShortFinalLine(s) ==
  /\ s.isLastLine
  /\ ~s.stretchLast
  /\ RatLess(RatMul(Int2Rat(100), DefaultLayout(s).w), Int2Rat(66 * s.target))

\* C11: a last line under 66% of its target after the first pass, with the
\* stretch-last policy off, gets that single pass: the loop is left with no
\* new coefficient and the line keeps the layout of the default coefficient.
C11_ShortLastLineStops ==
  (sp.pc # "idle" /\ sp.passes >= 1 /\ ShortFinalLine(sp)) =>
    /\ sp.passes = 1
    /\ sp.pc \in {"center", "done"}
    /\ sp.newspace.null
    /\ sp.w = DefaultLayout(sp).w
    /\ sp.pc = "center" => sp.els = DefaultLayout(sp).els

\* a short last line with spacing units, away from its target, left as the
\* first pass laid it out
C11_Witness ==
  /\ sp.pc = "done"
  /\ ShortFinalLine(sp)
  /\ sp.spacingUnits >= 1
  /\ sp.passes = 1
  /\ sp.w = DefaultLayout(sp).w
  /\ ~NearTarget(sp.target, sp.w)

\* the coefficient that brings the line of s to its target
SolvedFor(s) ==
  RatDiv(Int2Rat(s.target - ConstWidth(s.voice)), Int2Rat(SumUnits(s.voice)))

\* p <= q
RatLeq(p, q) == ~RatLess(q, p)

InteriorRest(voice, j) ==
  /\ j > 1
  /\ j < Len(voice)
  /\ ElemKinds[voice[j]].rest \in {"whole", "multimeasure"}

\* the x that centres element j of a voice between a left neighbour at xl and
\* a right neighbour at xr
CentredX(voice, j, xl, xr) ==
  RatSub(RatDiv(RatAdd(xl, xr), Int2Rat(2)), Rat(ElemKinds[voice[j]].w, 2))

\* el and all its children are at x
AllAt(el, x) == el.x = x /\ \A i \in DOMAIN el.kids : el.kids[i] = x

\* C13: at the end every interior whole or multi-measure rest is centred
\* between the final positions of its two neighbours, its children with it,
\* in every voice, those with whole rests in a row included.
C13_CentredOnFinal ==
  sp.pc = "done" =>
    \A j \in DOMAIN sp.els :
      InteriorRest(sp.voice, j) =>
        AllAt(sp.els[j], CentredX(sp.voice, j, sp.els[j - 1].x, sp.els[j + 1].x))

\* the x of the elements of a voice never decrease in voice order
NonDecreasing(els) ==
  \A j \in DOMAIN els : j < Len(els) => ~RatLess(els[j + 1].x, els[j].x)

\* C20: if the last layout pass left the x of the voice's elements
\* non-decreasing in voice order, they are non-decreasing when setXSpacing
\* has finished, after the rests are centred.
C20_OrderKept ==
  [][(sp.pc = "center" /\ sp'.pc = "done" /\ NonDecreasing(sp.els))
       => NonDecreasing(sp'.els)]_vars

\* no element of the voice begins before the element in front of it ends
NoOverlap(voice, els) ==
  \A j \in DOMAIN els :
    j < Len(els) =>
      ~RatLess(els[j + 1].x, RatAdd(els[j].x, Int2Rat(ElemKinds[voice[j]].w)))

\* the order is kept whenever the last layout pass left no two elements of
\* the voice overlapping
OrderKeptWithoutOverlap ==
  [][(sp.pc = "center" /\ sp'.pc = "done" /\ NoOverlap(sp.voice, sp.els))
       => NonDecreasing(sp'.els)]_vars

---------------------------------------------------------------------------
(* Triplets: TripletElem and its drawing.                                  *)

\* the most interior elements given to a triplet
MaxMiddle == 2

\* the staff positions (top) the notes of a triplet are given
Tops == {7, 12, 16}

\* a boolean property of an object (Undefined while it is not set)
Bool(b) == [k |-> "boolean", v |-> IF b THEN 1 ELSE 0]

\* The notes that can carry a triplet: 1 is the parent of the open anchor, 2
\* the parent of the close anchor, 3 and 4 other notes of the line.  A beam
\* arrangement gives each note its beam (0: none) and each beam its members
\* in order, its side of the staff and its height.
BeamOf(elems, above) == [elems |-> elems, above |-> above, height |-> IF above THEN 14 ELSE 2]

BeamConfigs ==
  { [noteBeam |-> <<0, 0, 0, 0>>, beams |-> << >>],
    [noteBeam |-> <<1, 1, 0, 0>>, beams |-> <<BeamOf(<<1, 2>>, TRUE)>>],
    [noteBeam |-> <<1, 1, 0, 0>>, beams |-> <<BeamOf(<<1, 2>>, FALSE)>>],
    [noteBeam |-> <<1, 1, 1, 0>>, beams |-> <<BeamOf(<<1, 3, 2>>, TRUE)>>],
    [noteBeam |-> <<1, 1, 1, 0>>, beams |-> <<BeamOf(<<1, 2, 3>>, TRUE)>>],
    [noteBeam |-> <<1, 1, 1, 0>>, beams |-> <<BeamOf(<<3, 1, 2>>, FALSE)>>],
    [noteBeam |-> <<1, 2, 1, 2>>, beams |-> <<BeamOf(<<1, 3>>, TRUE), BeamOf(<<4, 2>>, TRUE)>>],
    [noteBeam |-> <<1, 0, 1, 0>>, beams |-> <<BeamOf(<<1, 3>>, TRUE)>>],
    [noteBeam |-> <<0, 1, 1, 0>>, beams |-> <<BeamOf(<<3, 2>>, FALSE)>>] }

\* the notes of a line: the top and type of the two anchors' parents and the
\* beam of each note
Notes(top1, type1, top2, type2, config) ==
  [i \in 1 .. 4 |->
     [top |-> IF i = 1 THEN top1 ELSE IF i = 2 THEN top2 ELSE 12,
      type |-> IF i = 1 THEN type1 ELSE IF i = 2 THEN type2 ELSE "note",
      beam |-> config.noteBeam[i]]]

\* an anchor: a notehead with its x, its width and its parent note
Anchor(x, w, parent) == [x |-> x, w |-> w, parent |-> parent]
\* this.anchor2 of a triplet that is not closed
NoAnchor == Anchor(0, 0, 0)

\* new TripletElem(number, anchor1, options).  (durationClass, which only
\* names the CSS class of the drawing, is left out.)
TripletElem(number, anchor1, options) ==
  [anchor1 |-> anchor1, anchor2 |-> NoAnchor, number |-> number,
   middleElems |-> << >>, flatBeams |-> options.flatBeams, scratch |-> TRUE,
   endingHeightAbove |-> Undefined, hasBeam |-> Undefined,
   startNote |-> Undefined, endNote |-> Undefined,
   yTextPos |-> Undefined, top |-> Undefined, bottom |-> Undefined]

isClosed(t) == t.anchor2 # NoAnchor

middleNote(t, elem) == [t EXCEPT !.middleElems = Append(@, elem)]

setCloseAnchor(t, notes, anchor2) ==
  [t EXCEPT !.anchor2 = anchor2,
            !.endingHeightAbove =
               IF notes[t.anchor1.parent].beam # 0 THEN Num(4) ELSE @]

\* a number with a fractional part, as yTextPos, top and bottom are
Frac(q) == [k |-> "number", v |-> q]

\* the loop of layout over the interior elements: the highest top, from 0
RECURSIVE MaxTop(_, _)
MaxTop(middleElems, max) ==
  IF middleElems = << >> THEN max
  ELSE MaxTop(Tail(middleElems), Max(max, Head(middleElems).top))

\* beam.isAbove() and beam.heightAtMidpoint(left, right) of a beam (the beam
\* code is not part of the sources; the beam is taken to be level)
isAbove(beam) == beam.above
heightAtMidpoint(beam, left, right) == beam.height

\* RidesBeam without the test of the beam's first and last member
RidesSameBeam(t, notes, beams) ==
  LET b == notes[t.anchor1.parent].beam
  IN b # 0 /\ b = notes[t.anchor2.parent].beam

\* the test of layout for riding the beam: both anchors' notes are in one
\* beam, which starts at the first and ends at the second
RidesBeam(t, notes, beams) ==
  LET b == notes[t.anchor1.parent].beam
  IN /\ b # 0
     /\ b = notes[t.anchor2.parent].beam
     /\ ~(\/ beams[b].elems[1] # t.anchor1.parent
          \/ beams[b].elems[Len(beams[b].elems)] # t.anchor2.parent)

\* the branch of layout for a triplet under its beam: only the number is
\* placed
LayoutOnBeam(t, beam) ==
  LET left == IF isAbove(beam) THEN t.anchor1.x + t.anchor1.w ELSE t.anchor1.x
      yTextPos == heightAtMidpoint(beam, left, t.anchor2.x)
                    + (IF isAbove(beam) THEN 3 ELSE -2)
  IN [t EXCEPT !.hasBeam = Bool(TRUE),
               !.yTextPos = Frac(Int2Rat(yTextPos)),
               !.top = Frac(Int2Rat(yTextPos + 1)),
               !.bottom = Frac(Int2Rat(yTextPos - 2)),
               !.endingHeightAbove = IF isAbove(beam) THEN Num(4) ELSE @]

\* the branch of layout for a bracket
LayoutBracket(t, notes) ==
  LET p1 == notes[t.anchor1.parent]
      p2 == notes[t.anchor2.parent]
      start0 == Max(p1.top, 9) + 4
      end0 == Max(p2.top, 9) + 4
      \* a bracket that starts or ends on a rest is made level
      start1 == IF p1.type = "rest" /\ p2.type # "rest" THEN end0 ELSE start0
      end1 == IF p1.type = "rest" /\ p2.type # "rest" THEN end0
              ELSE IF p2.type = "rest" /\ p1.type # "rest" THEN start1 ELSE end0
      \* a high interior note
      max == MaxTop(t.middleElems, 0) + 4
      start2 == IF max > start1 \/ max > end1 THEN max ELSE start1
      end2 == IF max > start1 \/ max > end1 THEN max ELSE end1
      start3 == IF t.flatBeams THEN Max(start2, end2) ELSE start2
      end3 == IF t.flatBeams THEN Max(start3, end2) ELSE end2
      yTextPos == RatAdd(Int2Rat(start3), Rat(end3 - start3, 2))
  IN [t EXCEPT !.hasBeam = Bool(FALSE),
               !.startNote = Num(start3),
               !.endNote = Num(end3),
               !.yTextPos = Frac(yTextPos),
               !.top = Frac(RatAdd(yTextPos, Int2Rat(1)))]

\* layout testing its first anchor only: without a close anchor the beam
\* test comes out false before the close anchor is looked at
TripletElem_layoutOpenEnded(t, notes, beams) ==
  LET laid == IF t.anchor1 # NoAnchor
              THEN IF t.anchor2 = NoAnchor THEN [t EXCEPT !.hasBeam = Bool(FALSE)]
                   ELSE IF RidesBeam(t, notes, beams)
                   THEN LayoutOnBeam(t, beams[notes[t.anchor1.parent].beam])
                   ELSE LayoutBracket(t, notes)
              ELSE t
  IN [laid EXCEPT !.middleElems = << >>, !.flatBeams = FALSE, !.scratch = FALSE]

\* TripletElem.prototype.layout
TripletElem_layout(t, notes, beams) ==
  LET laid == IF t.anchor1 # NoAnchor /\ t.anchor2 # NoAnchor
              THEN IF RidesBeam(t, notes, beams)
                   THEN LayoutOnBeam(t, beams[notes[t.anchor1.parent].beam])
                   ELSE LayoutBracket(t, notes)
              ELSE t
  IN [laid EXCEPT !.middleElems = << >>, !.flatBeams = FALSE, !.scratch = FALSE]

\* renderer.y, the bottom line from which calcY counts (the renderer is not
\* part of the sources)
RendererY == 100

\* renderer.calcY(ofs): the y on the page of staff position ofs
calcY(ofs) == RatSub(Int2Rat(RendererY), RatMul(ofs, Int2Rat(STEP)))

\* drawLine(l, t, r, b): one stroke of the path
drawLine(l, t, r, b) == [l |-> l, t |-> t, r |-> r, b |-> b]

\* drawBracket(renderer, x1, y1, x2, y2): the strokes of the path it prints
drawBracket(x1, y1, x2, y2) ==
  LET cy1 == calcY(y1)
      cy2 == calcY(y2)
      bracketHeight == Int2Rat(5)
      midX == RatAdd(x1, RatDiv(RatSub(x2, x1), Int2Rat(2)))
      gapWidth == Int2Rat(8)
      slope == RatDiv(RatSub(cy2, cy1), RatSub(x2, x1))
      leftEndX == RatSub(midX, gapWidth)
      leftEndY == RatAdd(cy1, RatMul(RatSub(leftEndX, x1), slope))
      rightStartX == RatAdd(midX, gapWidth)
      rightStartY == RatAdd(cy1, RatMul(RatSub(rightStartX, x1), slope))
  IN << drawLine(x1, cy1, x1, RatAdd(cy1, bracketHeight)),
        drawLine(x2, cy2, x2, RatAdd(cy2, bracketHeight)),
        drawLine(x1, cy1, leftEndX, leftEndY),
        drawLine(rightStartX, rightStartY, x2, cy2) >>

\* beam.xAtMidpoint(left, right) (the beam code is not part of the sources)
xAtMidpoint(left, right) == Rat(left + right, 2)

\* the number of a triplet as renderText is asked to write it
NoText == [set |-> FALSE, x |-> Int2Rat(0), y |-> Int2Rat(0)]
Text(x, y) == [set |-> TRUE, x |-> x, y |-> y]

\* drawTriplet drawing the bracket up to the close anchor's x
drawTripletToAnchorX(d, c) ==
  LET t == d.t
      c1 == [c EXCEPT !.currentAbsEl = 4]
  IN IF t.anchor2 = NoAnchor
     THEN [d |-> [d EXCEPT !.threw = TRUE], ctl |-> c1]
     ELSE IF t.hasBeam = Bool(TRUE)
     THEN LET left == IF isAbove(d.beams[d.notes[t.anchor1.parent].beam])
                      THEN t.anchor1.x + t.anchor1.w ELSE t.anchor1.x
          IN [d |-> [d EXCEPT !.text = Text(xAtMidpoint(left, t.anchor2.x),
                                            calcY(t.yTextPos.v))],
              ctl |-> recordHistory(c1, 6, TRUE)]
     ELSE LET x1 == t.anchor1.x
              x2 == t.anchor2.x
          IN [d |-> [d EXCEPT !.path = drawBracket(Int2Rat(x1), Int2Rat(t.startNote.v),
                                                   Int2Rat(x2), Int2Rat(t.endNote.v)),
                              !.text = Text(RatAdd(Int2Rat(x1), Rat(x2 - x1, 2)),
                                            calcY(t.yTextPos.v))],
              ctl |-> recordHistory(c1, 6, TRUE)]

\* drawTriplet(renderer, params) on the record d of a line's triplet: the
\* path and the text drawn, and the controller with the group recorded, for
\* a triplet that layout has been called on.  A triplet without its close
\* anchor makes it throw when it reads params.anchor2.x.
drawTriplet(d, c) ==
  LET t == d.t
      c1 == [c EXCEPT !.currentAbsEl = 4]
  IN IF t.anchor2 = NoAnchor
     THEN [d |-> [d EXCEPT !.threw = TRUE], ctl |-> c1]
     ELSE IF t.hasBeam = Bool(TRUE)
     THEN LET left == IF isAbove(d.beams[d.notes[t.anchor1.parent].beam])
                      THEN t.anchor1.x + t.anchor1.w ELSE t.anchor1.x
          IN [d |-> [d EXCEPT !.text = Text(xAtMidpoint(left, t.anchor2.x),
                                            calcY(t.yTextPos.v))],
              ctl |-> recordHistory(c1, 6, TRUE)]
     ELSE LET x1 == t.anchor1.x
              x2 == t.anchor2.x + t.anchor2.w
          IN [d |-> [d EXCEPT !.path = drawBracket(Int2Rat(x1), Int2Rat(t.startNote.v),
                                                   Int2Rat(x2), Int2Rat(t.endNote.v)),
                              !.text = Text(RatAdd(Int2Rat(x1), Rat(x2 - x1, 2)),
                                            calcY(t.yTextPos.v))],
              ctl |-> recordHistory(c1, 6, TRUE)]

\* the widths of an anchor's notehead and the x of the close anchor (the open
\* anchor is at OpenX, to the left of it)
AnchorWs == {0, 8}
OpenX == 10
CloseXs == {20, 40}

\* a line's triplet from its opening on
OpenTriplet(notes, beams, w, flatBeams) ==
  [pc |-> "open", notes |-> notes, beams |-> beams,
   t |-> TripletElem(3, Anchor(OpenX, w, 1), [flatBeams |-> flatBeams]),
   path |-> << >>, text |-> NoText, threw |-> FALSE]

TrInit ==
  /\ tr = TrIdle
  /\ run = RunIdle
  /\ sp = SpIdle
  /\ ctl = reset(NewController(FALSE, 0))
  /\ dom = FreshDom
  /\ calls = << >>
  /\ ev = Event("new", 0, 0)

\* the triplet is opened on the first anchor
NewTriplet ==
  /\ tr.pc = "idle"
  /\ \E top1 \in Tops, top2 \in Tops, type1 \in {"note", "rest"},
        type2 \in {"note", "rest"}, config \in BeamConfigs, w \in AnchorWs,
        flatBeams \in BOOLEAN :
       tr' = OpenTriplet(Notes(top1, type1, top2, type2, config), config.beams,
                         w, flatBeams)
  /\ UNCHANGED <<ctl, dom, calls, ev, sp, run>>

MiddleNote ==
  /\ tr.pc = "open"
  /\ Len(tr.t.middleElems) < MaxMiddle
  /\ \E top \in Tops : tr' = [tr EXCEPT !.t = middleNote(@, [top |-> top])]
  /\ UNCHANGED <<ctl, dom, calls, ev, sp, run>>

SetCloseAnchor ==
  /\ tr.pc = "open"
  /\ \E x \in CloseXs, w \in AnchorWs :
       tr' = [tr EXCEPT !.t = setCloseAnchor(@, tr.notes, Anchor(x, w, 2)),
                        !.pc = "closed"]
  /\ UNCHANGED <<ctl, dom, calls, ev, sp, run>>

\* layout is called once on the triplet, closed or not
Layout ==
  /\ tr.pc \in {"open", "closed"}
  /\ tr' = [tr EXCEPT !.t = TripletElem_layout(@, tr.notes, tr.beams), !.pc = "laid"]
  /\ UNCHANGED <<ctl, dom, calls, ev, sp, run>>

DrawTriplet ==
  /\ tr.pc = "laid"
  /\ LET drawn == drawTriplet(tr, ctl)
     IN /\ tr' = [drawn.d EXCEPT !.pc = "drawn"]
        /\ ctl' = drawn.ctl
  /\ UNCHANGED <<dom, calls, ev, sp, run>>

TrNext == NewTriplet \/ MiddleNote \/ SetCloseAnchor \/ Layout \/ DrawTriplet

SpecTriplet == TrInit /\ [][TrNext]_vars

---------------------------------------------------------------------------
(* Triplet claims.                                                         *)

\* layout is called on a closed triplet and lays it out with a bracket
LaysOutBracket ==
  tr.pc = "closed" /\ tr'.pc = "laid" /\ tr'.t.hasBeam = Bool(FALSE)

\* C14: a bracket's startNote is at least 4 above the higher of 9 and the
\* first anchor's top, its endNote at least 4 above the higher of 9 and the
\* second anchor's top, and both at least 4 above every interior element.
C14_BracketMonotone ==
  [][LaysOutBracket =>
       /\ tr'.t.startNote.v >= 4 + Max(9, tr.notes[tr.t.anchor1.parent].top)
       /\ tr'.t.endNote.v >= 4 + Max(9, tr.notes[tr.t.anchor2.parent].top)
       /\ \A i \in DOMAIN tr.t.middleElems :
            /\ tr'.t.startNote.v >= 4 + tr.t.middleElems[i].top
            /\ tr'.t.endNote.v >= 4 + tr.t.middleElems[i].top]_vars

\* the first anchor's note has a beam, the second anchor's note is a member
\* of it, and the beam runs from the one to the other
BeamSpansPair(d) ==
  LET b == d.notes[d.t.anchor1.parent].beam
  IN /\ b # 0
     /\ \E i \in DOMAIN d.beams[b].elems : d.beams[b].elems[i] = d.t.anchor2.parent
     /\ d.beams[b].elems[1] = d.t.anchor1.parent
     /\ d.beams[b].elems[Len(d.beams[b].elems)] = d.t.anchor2.parent

\* C15: layout of a closed triplet sets hasBeam to true exactly when the
\* first anchor's note has a beam that the second anchor's note belongs to
\* and that beam begins with the one and ends with the other; in every other
\* case hasBeam is false and startNote and endNote are set.
C15_HasBeamIff ==
  [][(tr.pc = "closed" /\ tr'.pc = "laid") =>
       /\ tr'.t.hasBeam = Bool(BeamSpansPair(tr))
       /\ ~BeamSpansPair(tr) =>
            IsNum(tr'.t.startNote) /\ IsNum(tr'.t.endNote)]_vars

\* a triplet laid out under a beam of three notes that begins and ends with
\* its anchors
C15_Witness ==
  /\ tr.pc = "laid"
  /\ isClosed(tr.t)
  /\ tr.t.hasBeam = Bool(TRUE)
  /\ BeamSpansPair(tr)
  /\ Len(tr.beams[tr.notes[1].beam].elems) = 3

\* the geometry layout computes
Geometry(t) == <<t.hasBeam, t.yTextPos, t.top, t.bottom, t.startNote, t.endNote>>

\* C23: layout on a triplet without its close anchor raises no error and
\* computes no geometry: hasBeam, yTextPos, top, bottom, startNote and
\* endNote stay unset as they were, whatever interior elements it was given.
C23_OpenLayoutNoOp ==
  [][(tr.pc = "open" /\ tr'.pc = "laid") =>
       /\ ~tr'.threw
       /\ Geometry(tr'.t) = Geometry(tr.t)
       /\ Geometry(tr'.t) = <<Undefined, Undefined, Undefined, Undefined,
                              Undefined, Undefined>>]_vars

\* a triplet opened on a beamed note was laid out without a close anchor:
\* its scratch fields are gone and it has no geometry
C23_Witness ==
  /\ tr.pc = "laid"
  /\ ~isClosed(tr.t)
  /\ tr.notes[tr.t.anchor1.parent].beam # 0
  /\ ~tr.t.scratch
  /\ tr.t.hasBeam = Undefined

\* a bracket has been drawn for the triplet
BracketDrawn == tr.pc = "drawn" /\ ~tr.threw /\ tr.t.hasBeam = Bool(FALSE)

\* the point (x, y) is on the straight line through the outer ends of the two
\* ticks of the drawn bracket
OnBracketLine(x, y) ==
  LET x1 == tr.path[1].l
      y1 == tr.path[1].t
      x2 == tr.path[2].l
      y2 == tr.path[2].t
  IN RatMul(RatSub(y, y1), RatSub(x2, x1)) = RatMul(RatSub(y2, y1), RatSub(x, x1))

\* C16: the line of a drawn bracket is broken by a gap of 8 units about its
\* horizontal midpoint: the left part ends and the right part starts 8 apart,
\* at equal distances from the midpoint, on the line joining the bracket's
\* ends.
C16_GapOfEight ==
  BracketDrawn =>
    LET leftEnd == tr.path[3]
        rightStart == tr.path[4]
        midX == RatDiv(RatAdd(tr.path[1].l, tr.path[2].l), Int2Rat(2))
    IN /\ RatSub(rightStart.l, leftEnd.r) = Int2Rat(8)
       /\ RatSub(midX, leftEnd.r) = RatSub(rightStart.l, midX)
       /\ OnBracketLine(leftEnd.r, leftEnd.b)
       /\ OnBracketLine(rightStart.l, rightStart.t)

\* stroke s is a vertical tick at x
TickAt(s, x) == s.l = Int2Rat(x) /\ s.r = Int2Rat(x) /\ s.t # s.b

\* C17 as stated: the bracket's ticks are at anchor1.x and at anchor2.x.
C17_TicksAtAnchors ==
  BracketDrawn =>
    /\ TickAt(tr.path[1], tr.t.anchor1.x)
    /\ TickAt(tr.path[2], tr.t.anchor2.x)

\* C17 (amended): the bracket's first tick is at anchor1.x and its second
\* tick at anchor2.x + anchor2.w, the right edge of the close anchor, so the
\* ticks are at the two anchors' x-positions only when anchor2 has no width.
C17_TicksAtEdges ==
  BracketDrawn =>
    /\ TickAt(tr.path[1], tr.t.anchor1.x)
    /\ TickAt(tr.path[2], tr.t.anchor2.x + tr.t.anchor2.w)

\* a drawn bracket over a close anchor 8 wide, its second tick 8 to the right
\* of the anchor's x
C17_Witness ==
  /\ BracketDrawn
  /\ tr.t.anchor2.w = 8
  /\ tr.t.anchor1.w = 8
  /\ TickAt(tr.path[2], tr.t.anchor2.x + 8)

---------------------------------------------------------------------------
(* The history index while a page is drawn: recordHistory, combineHistory  *)
(* and the pointer-downs that follow.                                      *)

\* the first loop of combineHistory: len entries popped off the history, the
\* last entry first; popping an empty history gives undefined, which makes
\* the second loop throw
RECURSIVE PopItems(_, _)
PopItems(history, len) ==
  IF len = 0 THEN [items |-> << >>, history |-> history, undef |-> FALSE]
  ELSE IF history = << >> THEN [items |-> << >>, history |-> history, undef |-> TRUE]
  ELSE LET rest == PopItems(SubSeq(history, 1, Len(history) - 1), len - 1)
       IN [rest EXCEPT !.items = <<history[Len(history)]>> \o @]

\* the third loop of combineHistory: the box of item0 grown over the boxes of
\* items, from index i on
RECURSIVE UnionDims(_, _, _)
UnionDims(dim, items, i) ==
  IF i > Len(items) THEN dim
  ELSE UnionDims([dim EXCEPT !.left = Min(@, items[i].dim.left),
                             !.top = Min(@, items[i].dim.top),
                             !.right = Max(@, items[i].dim.right),
                             !.bottom = Max(@, items[i].dim.bottom)],
                 items, i + 1)

\* combineHistory keeping the box of the last entry alone
combineHistoryLastBox(w, len, svgEl) ==
  IF len < 2 THEN w
  ELSE LET popped == PopItems(w.ctl.history, len)
           items == [i \in DOMAIN popped.items |-> getDim(popped.items[i])]
       IN IF popped.undef
          THEN [w EXCEPT !.ctl.history = popped.history, !.threw = TRUE]
          ELSE [w EXCEPT !.ctl.history =
                  Append(popped.history, [items[1] EXCEPT !.svgEl = svgEl])]

\* EngraverController.prototype.combineHistory(len, svgEl)
combineHistory(w, len, svgEl) ==
  IF len < 2 THEN w
  ELSE LET popped == PopItems(w.ctl.history, len)
           items == [i \in DOMAIN popped.items |-> getDim(popped.items[i])]
       IN IF popped.undef
          THEN [w EXCEPT !.ctl.history = popped.history, !.threw = TRUE]
          ELSE [w EXCEPT !.ctl.history =
                  Append(popped.history,
                         [items[1] EXCEPT !.dim = UnionDims(items[1].dim, items, 2),
                                          !.svgEl = svgEl])]

\* the primitives of the entries of a history
Drawn(history) == { history[i].svgEl : i \in DOMAIN history }

\* the page is being drawn: no pointer event has come yet
Drawing == ev.name \in {"reset", "recordHistory", "combineHistory"}

HsInit ==
  /\ \E dragging \in BOOLEAN : ctl = reset(NewController(dragging, 1))
  /\ dom = [FreshDom EXCEPT !.listening = TRUE, !.handlers = 1]
  /\ calls = << >>
  /\ ev = Event("reset", 0, 0)
  /\ sp = SpIdle
  /\ tr = TrIdle
  /\ run = RunIdle

\* a primitive not on the page yet is drawn and recorded (ev.x: the primitive)
RecordHistory ==
  /\ Drawing
  /\ Len(ctl.history) < MaxHitHist
  /\ \E s \in SvgIds \ Drawn(ctl.history) :
       Apply([Now EXCEPT !.ctl = Draw(ctl, s)],
             [Event("recordHistory", 0, 0) EXCEPT !.x = s])

\* no entry of the history is the product of a combination: while the page
\* is drawn only combineHistory gives an entry its box
NothingCombined == \A i \in DOMAIN ctl.history : ~ctl.history[i].dim.set

\* the last len entries are combined under a primitive not on the page yet,
\* once for a page (ev.key: len, ev.x: the primitive)
CombineHistory ==
  /\ Drawing
  /\ NothingCombined
  /\ \E len \in 1 .. Len(ctl.history), s \in SvgIds \ Drawn(ctl.history) :
       Apply(combineHistory(Now, len, s),
             [Event("combineHistory", 0, len) EXCEPT !.x = s])

\* a pointer-down on the drawn page
HsMouseDown ==
  /\ ctl.history # << >>
  /\ \E x \in DragXs, y \in 0 .. MaxDragY :
       Apply(mouseDown(Now, x, y), [Event("mouseDown", y, 0) EXCEPT !.x = x])

HsNext == RecordHistory \/ CombineHistory \/ HsMouseDown

SpecHistory == HsInit /\ [][HsNext]_vars

\* a further combination, once, on a page that has one already or after a
\* pointer-down has measured entries (ev.key: len, ev.x: the primitive)
CombineAgain ==
  /\ ev.name \in {"recordHistory", "combineHistory", "mouseDown"}
  /\ ~NothingCombined
  /\ \E len \in 2 .. Len(ctl.history), s \in SvgIds \ Drawn(ctl.history) :
       Apply(combineHistory(Now, len, s),
             [Event("combineAgain", 0, len) EXCEPT !.x = s])

MmNext == RecordHistory \/ CombineHistory \/ CombineAgain \/ HsMouseDown

SpecMemo == HsInit /\ [][MmNext]_vars

---------------------------------------------------------------------------
(* History claims.                                                         *)

\* the least and the greatest of a set of integers
Least(S) == CHOOSE m \in S : \A n \in S : m <= n
Greatest(S) == CHOOSE m \in S : \A n \in S : m >= n

\* the union of the boxes of the entries first .. last of a history
UnionBox(history, first, last) ==
  LET dims == { getDim(history[i]).dim : i \in first .. last }
  IN [set |-> TRUE,
      left |-> Least({ d.left : d \in dims }),
      top |-> Least({ d.top : d \in dims }),
      right |-> Greatest({ d.right : d \in dims }),
      bottom |-> Greatest({ d.bottom : d \in dims })]

\* the history after the step is the history before it with its last n
\* entries replaced by one entry of primitive s whose box is their union
Combined(n, s) ==
  LET before == ctl.history
      after == ctl'.history
      kept == Len(before) - n
  IN /\ Len(after) = kept + 1
     /\ \A i \in 1 .. kept : after[i] = before[i]
     /\ after[kept + 1].svgEl = s
     /\ after[kept + 1].dim = UnionBox(before, kept + 1, Len(before))

\* C18 as stated: combineHistory(n, primitive) with n from 1 to the length of
\* the history replaces the last n entries by one entry of that primitive
\* with the union of their boxes.
C18_CombinesFromOne ==
  [][ev'.name = "combineHistory" => Combined(ev'.key, ev'.x)]_vars

\* C18 (amended): for every n from 2 up to the history length,
\* combineHistory(n, primitive) removes the last n entries and appends one
\* entry that carries the primitive and the union of their boxes, earlier
\* entries unchanged and the length n-1 less; with n = 1 it returns at once
\* and the history, its last entry's primitive included, is unchanged.
C18_CombinesFromTwo ==
  [][ev'.name = "combineHistory" =>
       IF ev'.key >= 2 THEN Combined(ev'.key, ev'.x)
       ELSE ctl'.history = ctl.history]_vars

\* three entries combined into one whose box is wider and taller than the
\* box of any primitive on the page
C18_Witness ==
  /\ ev.name = "combineHistory"
  /\ ev.key = 3
  /\ Len(ctl.history) = 1
  /\ ctl.history[1].svgEl = ev.x
  /\ ctl.history[1].dim.set
  /\ \A s \in SvgIds : ctl.history[1].dim # BBoxDim(s)

---------------------------------------------------------------------------
(* Highlighting a range of the source: pages of one or two tunes engraved  *)
(* by one engraveABC, selections made by the pointer, and rangeHighlight   *)
(* with every start and end up to MaxChar.                                 *)

MaxChar == 6

\* the test rangeHighlight makes on an element of a voice
InRange(a, start, end) ==
  LET elStart == AbsEls[a].startChar
      elEnd == AbsEls[a].endChar
  IN \/ (end > elStart /\ start < elEnd)
     \/ (end = start /\ end = elEnd)

\* the children of all voices of all staff groups, in the order of the loops
RECURSIVE Flatten(_)
Flatten(seqs) ==
  IF seqs = << >> THEN << >> ELSE Head(seqs) \o Flatten(Tail(seqs))

\* the scan of rangeHighlight over the elements elems
RECURSIVE SelectInRange(_, _, _, _)
SelectInRange(w, elems, start, end) ==
  IF elems = << >> THEN w
  ELSE LET a == Head(elems)
           w1 == IF InRange(a, start, end)
                 THEN [w EXCEPT !.ctl.selected = Append(@, a),
                                !.dom = Highlight(w.dom, a, "selectionColor")]
                 ELSE w
       IN SelectInRange(w1, Tail(elems), start, end)

rangeHighlight(w, start, end) ==
  SelectInRange(clearSelection(w), Flatten(Flatten(w.ctl.staffgroups)), start, end)

\* the pages: lists of tunes, each tune the primitives it draws
RangePages ==
  { << <<1, 2, 4>> >>, << <<1, 3>>, <<2, 4>> >>, << <<1, 5>>, <<4, 6>> >>, << << >>, <<2>> >> }

RgInit ==
  /\ \E dragging \in BOOLEAN, tunes \in RangePages :
       LET w == engraveTunes(World(NewController(dragging, 1), FreshDom), tunes, Undefined)
       IN ctl = w.ctl /\ dom = w.dom
  /\ calls = << >>
  /\ ev = Event("engraveABC", 0, 0)
  /\ sp = SpIdle
  /\ tr = TrIdle
  /\ run = RunIdle

RgMouseDown ==
  /\ ev.name # "mouseDown"
  /\ \E x \in DragXs, y \in 0 .. MaxY :
       Apply(mouseDownBy(Now, x, y, dom.handlers),
             [Event("mouseDown", y, 0) EXCEPT !.x = x])

RgMouseUp ==
  /\ ev.name = "mouseDown"
  /\ Apply(mouseUpBy(Now, dom.handlers), [ev EXCEPT !.name = "mouseUp"])

\* rangeHighlight(start, end): the event keeps start in x and end in key
RangeHighlight ==
  /\ ev.name # "mouseDown"
  /\ \E start, end \in 0 .. MaxChar :
       Apply(rangeHighlight(Now, start, end),
             [Event("rangeHighlight", 0, end) EXCEPT !.x = start])

RgNext == RgMouseDown \/ RgMouseUp \/ RangeHighlight

SpecRange == RgInit /\ [][RgNext]_vars

\* the elements of the staff groups drawn on the page: the elements of a
\* staff that have a primitive on it
DrawnElems(c) ==
  { a \in AbsElIds : AbsEls[a].hasHighlight
                     /\ \E i \in DOMAIN c.history : c.history[i].absEl = a }

\* the elements of the staff groups this.staffgroups holds
HeldElems(c) == Range(Flatten(Flatten(c.staffgroups)))

NoDuplicates(s) == \A i, j \in DOMAIN s : i # j => s[i] # s[j]

\* C19: after rangeHighlight(start, end) the selection is exactly the set of
\* the elements of the drawn staff groups whose source range overlaps
\* [start, end) or, for an empty range, ends at it; each is selected once
\* and carries the selection colour, and every element selected before the
\* call is unhighlighted and no longer selected.
C19_SelectsDrawnRange ==
  [][ev'.name = "rangeHighlight" =>
       /\ Range(ctl'.selected)
            = { a \in DrawnElems(ctl) : InRange(a, ev'.x, ev'.key) }
       /\ NoDuplicates(ctl'.selected)
       /\ \A a \in Range(ctl'.selected) : dom'.highlight[a] = "selectionColor"
       /\ \A a \in Range(ctl.selected) :
            dom'.highlight[a] = "none" /\ a \notin Range(ctl'.selected)]_vars

\* what rangeHighlight does: the scan runs over this.staffgroups only, and
\* an element selected before is dropped only when it is not selected again
RangeSelectsHeld ==
  [][ev'.name = "rangeHighlight" =>
       /\ Range(ctl'.selected)
            = { a \in HeldElems(ctl) : InRange(a, ev'.x, ev'.key) }
       /\ NoDuplicates(ctl'.selected)
       /\ \A a \in Range(ctl'.selected) : dom'.highlight[a] = "selectionColor"
       /\ \A a \in Range(ctl.selected) \ Range(ctl'.selected) :
            dom'.highlight[a] = "none"]_vars

\* the first clause of C19 alone fails on a page of two tunes
RangeCoversDrawn ==
  [][ev'.name = "rangeHighlight" =>
       Range(ctl'.selected)
         = { a \in DrawnElems(ctl) : InRange(a, ev'.x, ev'.key) }]_vars

---------------------------------------------------------------------------
(* Memoization of the bounding boxes.                                      *)

\* C21: between two resets getBBox() is called at most once for each entry
\* of the history, whatever recordHistory, combineHistory and pointer-down
\* operations came; an entry that has its box, the entry a combination
\* produced included, has had exactly one call and keeps the box.
C21_BoxOnce ==
  \A i \in DOMAIN ctl.history :
    /\ ctl.history[i].bboxCalls <= 1
    /\ ctl.history[i].dim.set <=> ctl.history[i].bboxCalls = 1

\* a pointer-down has scanned a selectable entry that a combination produced:
\* the entry still has the union the combination cached, which is not the
\* box of its primitive, and one call only
C21_Witness ==
  /\ ev.name = "mouseDown"
  /\ \E i \in DOMAIN ctl.history :
       /\ ctl.history[i].selectable
       /\ ctl.history[i].dim.set
       /\ ctl.history[i].dim # BBoxDim(ctl.history[i].svgEl)
       /\ ctl.history[i].bboxCalls = 1

---------------------------------------------------------------------------
(* The phases of one engraving run: engraveABC of one tune, followed loop  *)
(* by loop through engraveTune.  run.log records what has been done.       *)

\* the lines of a tune: a staff line with the primitives its staff group
\* draws, or a line of text
StaffLine(prims) == [staff |-> TRUE, prims |-> prims]
TextLine == [staff |-> FALSE, prims |-> << >>]

\* the tunes engraved
RunTunes ==
  { << >>,
    << StaffLine(<<1, 3>>) >>,
    << TextLine, StaffLine(<<1, 3>>), StaffLine(<<2, 5>>) >>,
    << StaffLine(<<1, 3>>), TextLine, StaffLine(<<2>>) >>,
    << StaffLine(<<1>>), StaffLine(<<2, 5>>), StaffLine(<<4>>) >> }

Did(op, line) == [op |-> op, line |-> line]

\* the first staff line of the tune at or after line i (past the end: none)
RECURSIVE NextStaff(_, _)
NextStaff(tune, i) ==
  IF i > Len(tune) \/ tune[i].staff THEN i ELSE NextStaff(tune, i + 1)

\* the run at the head of loop pc, at its first staff line
AtLoop(r, pc) == [r EXCEPT !.pc = pc, !.i = NextStaff(r.tune, 1), !.it = 0]

\* the run after the body of loop pc for line r.i: the next staff line of the
\* same loop, or the loop next after the last line
Advance(r, next) ==
  LET j == NextStaff(r.tune, r.i + 1)
  IN IF j > Len(r.tune) THEN AtLoop(r, next) ELSE [r EXCEPT !.i = j, !.it = 0]

\* the spacing loop drawing each line as soon as its rests are centred
afterCenterDrawNow(r) == [r EXCEPT !.pc = "draw"]

\* after centerWholeRests of line r.i setXSpacing returns into the spacing
\* loop of engraveTune
afterCenter(r) == Advance(r, "beams")

RunInit ==
  /\ run = RunIdle
  /\ \E dragging \in BOOLEAN : ctl = NewController(dragging, 1)
  /\ dom = FreshDom
  /\ calls = << >>
  /\ ev = Event("new", 0, 0)
  /\ sp = SpIdle
  /\ tr = TrIdle

\* engraveABC(tune): the reset, then engraveTune up to its first loop
RunEngraveABC ==
  /\ run.pc = "idle"
  /\ \E tune \in RunTunes :
       run' = AtLoop([pc |-> "create", tune |-> tune, i |-> 1, it |-> 0,
                      log |-> << Did("reset", 0) >>], "create")
  /\ ctl' = reset(ctl)
  /\ dom' = FreshDom
  /\ ev' = Event("engraveABC", 0, 0)
  /\ UNCHANGED <<calls, sp, tr>>

\* the loops of engraveTune over the lines of the tune that have a staff
RunOver(pc) == run.pc = pc /\ run.i <= Len(run.tune)
RunPast(pc) == run.pc = pc /\ run.i > Len(run.tune)

\* createABCLine of a staff line
CreateLine ==
  /\ RunOver("create")
  /\ run' = Advance([run EXCEPT !.log = Append(@, Did("create", run.i))], "space")
  /\ UNCHANGED <<ctl, dom, calls, ev, sp, tr>>

\* one pass of the loop of setXSpacing for line run.i; none says that
\* calcHorizontalSpacing returned null
RunLayoutPass ==
  /\ RunOver("space")
  /\ \E none \in BOOLEAN :
       run' = [run EXCEPT !.log = Append(@, Did("layout", run.i)),
                          !.it = @ + 1,
                          !.pc = IF none \/ run.it + 1 >= MaxPasses
                                 THEN "center" ELSE "space"]
  /\ UNCHANGED <<ctl, dom, calls, ev, sp, tr>>

\* centerWholeRests, the end of setXSpacing for line run.i
RunCenterRests ==
  /\ run.pc = "center"
  /\ run' = afterCenter([run EXCEPT !.log = Append(@, Did("center", run.i)),
                                    !.pc = "space"])
  /\ UNCHANGED <<ctl, dom, calls, ev, sp, tr>>

\* layoutBeams of the voices of a staff line
LayoutBeams ==
  /\ RunOver("beams")
  /\ run' = Advance([run EXCEPT !.log = Append(@, Did("beams", run.i))], "height")
  /\ UNCHANGED <<ctl, dom, calls, ev, sp, tr>>

\* calcHeight of a staff line; after the last, the drawing loop starts at
\* the first line of the tune
CalcHeight ==
  /\ RunOver("height")
  /\ LET r == Advance([run EXCEPT !.log = Append(@, Did("height", run.i))], "draw")
     IN run' = IF r.pc = "draw" THEN [r EXCEPT !.i = 1] ELSE r
  /\ UNCHANGED <<ctl, dom, calls, ev, sp, tr>>

\* a tune without a staff line falls through its first four loops
NoStaffLine ==
  /\ run.pc \in {"create", "space", "beams", "height"}
  /\ run.i > Len(run.tune)
  /\ run' = [run EXCEPT !.pc = "draw", !.i = 1]
  /\ UNCHANGED <<ctl, dom, calls, ev, sp, tr>>

\* the drawing loop: engraveStaffLine of a staff line, which draws and records
\* its primitives, or the output of a line of text
EngraveLine ==
  /\ RunOver("draw")
  /\ run' = [run EXCEPT !.log = Append(@, Did(IF run.tune[run.i].staff THEN "draw"
                                                ELSE "text", run.i)),
                        !.i = @ + 1]
  /\ ctl' = DrawAll(ctl, run.tune[run.i].prims)
  /\ UNCHANGED <<dom, calls, ev, sp, tr>>

\* the end of engraveTune: the handlers are attached
AddListeners ==
  /\ RunPast("draw")
  /\ run' = [run EXCEPT !.log = Append(@, Did("listen", 0)), !.pc = "done"]
  /\ dom' = AttachHandlers(ctl, dom)
  /\ UNCHANGED <<ctl, calls, ev, sp, tr>>

RunNext ==
  \/ RunEngraveABC
  \/ CreateLine
  \/ RunLayoutPass
  \/ RunCenterRests
  \/ LayoutBeams
  \/ CalcHeight
  \/ NoStaffLine
  \/ EngraveLine
  \/ AddListeners

SpecRun == RunInit /\ [][RunNext]_vars

---------------------------------------------------------------------------
(* Engraving run claims.                                                   *)

\* the positions of the log at which op was done for line
At(op, line) == { k \in DOMAIN run.log : run.log[k] = Did(op, line) }

\* the staff lines of the tune of the run
StaffLines == { i \in DOMAIN run.tune : run.tune[i].staff }

\* the lines the log says were drawn, in the order of the log
RECURSIVE DrawnPrims(_, _)
DrawnPrims(log, tune) ==
  IF log = << >> THEN << >>
  ELSE (IF Head(log).op = "draw" THEN tune[Head(log).line].prims ELSE << >>)
         \o DrawnPrims(Tail(log), tune)

\* whatever is done line by line is done in the order of the lines
InSourceOrder ==
  \A k, m \in DOMAIN run.log :
    (k < m /\ run.log[k].op = run.log[m].op) => run.log[k].line <= run.log[m].line

\* C22: in one engraving run of a tune the reset comes first; the lines are
\* negotiated and drawn in source order; the rests of a staff line are
\* centred exactly once, after every layout pass of the line and before the
\* line is drawn; every staff line has been negotiated and had its beams
\* laid out before any line is drawn; and the history holds the primitives
\* in the order they were drawn.
C22_PhaseOrder ==
  run.pc # "idle" =>
    /\ At("reset", 0) = {1}
    /\ InSourceOrder
    /\ \A i \in StaffLines :
         /\ Cardinality(At("center", i)) <= 1
         /\ \A c \in At("center", i) :
              /\ At("layout", i) # {}
              /\ \A k \in At("layout", i) : k < c
         /\ Cardinality(At("draw", i)) <= 1
         /\ \A d \in At("draw", i) : \E c \in At("center", i) : c < d
         /\ run.pc = "done" => At("draw", i) # {}
    /\ \A d \in DOMAIN run.log :
         run.log[d].op \in {"draw", "text"} =>
           \A i \in StaffLines :
             /\ \E c \in At("center", i) : c < d
             /\ \E b \in At("beams", i) : b < d
    /\ [k \in DOMAIN ctl.history |-> ctl.history[k].svgEl]
         = DrawnPrims(run.log, run.tune)

\* a run of three staff lines has ended; the second line took several layout
\* passes and its four primitives are on the page
C22_Witness ==
  /\ run.pc = "done"
  /\ Cardinality(StaffLines) = 3
  /\ Cardinality(At("layout", 2)) > 1
  /\ Len(ctl.history) = 4

---------------------------------------------------------------------------
(* The frame of a pointer-move.                                            *)

\* a drag by the pointer is under way: there is a drag target, drag mode is
\* on, the target is draggable and the pointer armed it
PointerDrag(c) ==
  /\ c.dragTarget # 0
  /\ c.dragging
  /\ c.history[c.dragTarget].isDraggable
  /\ c.dragMechanism = "mouse"

\* C24: a pointer-move changes the step count or a transform only during a
\* drag by the pointer; in every other state it leaves the drag target, the
\* origin point, the step count, the selection and every transform as they
\* were.
C24_MoveFrame ==
  [][ev'.name = "mouseMove" =>
       /\ (ctl'.dragStep # ctl.dragStep \/ dom'.transform # dom.transform)
            => PointerDrag(ctl)
       /\ ~PointerDrag(ctl) =>
            /\ ctl'.dragTarget = ctl.dragTarget
            /\ ctl'.dragMouseStart = ctl.dragMouseStart
            /\ ctl'.dragStep = ctl.dragStep
            /\ ctl'.selected = ctl.selected
            /\ dom'.transform = dom.transform]_vars

\* a pointer-move came while a draggable target armed by an arrow key was
\* one step away from its place, with drag mode on, and the pointer stood
\* where a drag from the origin point would have counted another step
C24_Witness ==
  /\ ev.name = "mouseMove"
  /\ ctl.dragTarget # 0
  /\ ctl.dragging
  /\ ctl.history[ctl.dragTarget].isDraggable
  /\ ctl.dragMechanism = "keyboard"
  /\ IsNum(ctl.dragStep)
  /\ RoundDiv(ev.y - ctl.dragMouseStart[2], STEP) \notin {ctl.dragStep.v, ctl.dragYStep}

---------------------------------------------------------------------------
(* Pages of several tunes: one engraveABC of a list of tunes without a     *)
(* tune number, and the events the browser then delivers to every handler  *)
(* the tunes' engraveTune calls attached.  run.tunes keeps the list.       *)

\* the keys released on a page of several tunes
TuneKeys == {13, 38, 40}

\* the lists of tunes engraved, each tune the primitives it draws
TunePages == { << <<1, 2, 4>> >>, << <<1, 3>>, <<2, 4>> >> }

TnInit ==
  /\ \E dragging \in BOOLEAN, tunes \in TunePages :
       LET w == engraveTunes(World(NewController(dragging, 1), FreshDom), tunes, Undefined)
       IN ctl = w.ctl /\ dom = w.dom /\ run = [pc |-> "engraved", tunes |-> tunes]
  /\ calls = << >>
  /\ ev = Event("engraveABC", 0, 0)
  /\ sp = SpIdle
  /\ tr = TrIdle

TnMouseDown ==
  /\ dom.listening
  /\ \E x \in DragXs, y \in 0 .. MaxDragY :
       Apply(mouseDownBy(Now, x, y, dom.handlers),
             [Event("mouseDown", y, 0) EXCEPT !.x = x])

TnMouseUp ==
  /\ ev.name = "mouseDown"
  /\ Apply(mouseUpBy(Now, dom.handlers), Event("mouseUp", 0, 0))

\* the focus moves to a focusable primitive; elementFocused run again by a
\* second handler finds dragStep at 0 (or throws again) and changes nothing
TnFocus ==
  /\ dom.listening
  /\ \E s \in SvgIds :
       /\ Focusable(ctl, s)
       /\ dom.focus # s
       /\ Apply(FocusElement(Now, s), Event("focus", 0, 0))

\* a key is released on the focused primitive
TnKeyUp ==
  /\ dom.focus # 0
  /\ \E key \in TuneKeys :
       /\ key = 38 => ~(IsNum(ctl.dragStep) /\ ctl.dragStep.v <= 0 - MaxStep)
       /\ key = 40 => ~(IsNum(ctl.dragStep) /\ ctl.dragStep.v >= MaxStep)
       /\ Apply(keyboardSelectionBy(Now, IndexOf(ctl, dom.focus), key,
                                    dom.keyHandlers[dom.focus]),
                Event("keyup", 0, key))

TnNext == TnMouseDown \/ TnMouseUp \/ TnFocus \/ TnKeyUp

SpecTunes == TnInit /\ [][TnNext]_vars

\* the index, counting from 0, of the tune of the list that draws logical
\* element a
TuneIndexOf(a) ==
  CHOOSE i \in 0 .. Len(run.tunes) - 1 :
    \E k \in DOMAIN run.tunes[i + 1] : SvgEls[run.tunes[i + 1][k]].absEl = a

\* C25: engraveABC of a list of tunes without a tune number engraves the
\* tune of index i with tune index i, so every selection notification for an
\* element of that tune carries the tune index i.
C25_TuneIndex ==
  \A k \in DOMAIN calls : calls[k].tuneNumber = Num(TuneIndexOf(calls[k].abcelem))

\* what engraveABC does: the first tune sets tuneNumber to 0 and every tune
\* after it is engraved with that value
TuneIndexZero ==
  \A k \in DOMAIN calls : calls[k].tuneNumber = Num(0)

\* C27: every input event is processed once, also on a page of several
\* tunes: the release of an arrow key on a draggable element moves the step
\* count by exactly one step, and Enter, Space or a pointer-up on a target
\* calls each registered listener exactly once.
C27_OncePerEvent ==
  [][/\ (ev'.name = "keyup" /\ ev'.key \in {38, 40}
         /\ Focused(ctl, dom).isDraggable /\ IsNum(ctl.dragStep)) =>
          /\ IsNum(ctl'.dragStep)
          /\ Abs(ctl'.dragStep.v - ctl.dragStep.v) = 1
     /\ (\/ ev'.name = "keyup" /\ ev'.key \in {13, 32}
         \/ ev'.name = "mouseUp" /\ ctl.dragTarget # 0) =>
          \A fn \in 1 .. ctl.listeners :
            Cardinality({ k \in DOMAIN calls' : calls'[k].fn = fn }) = 1]_vars

---------------------------------------------------------------------------
(* Highlights and the selection.                                           *)

\* the logical elements that carry a highlight colour
Highlighted == { a \in AbsElIds : dom.highlight[a] # "none" }

\* C26: after any sequence of pointer, focus and key events every
\* highlighted element is the element of the current drag target or a member
\* of the selected list, so that a later finalization or clearSelection can
\* remove the highlight.
C26_HighlightOwned ==
  \A a \in Highlighted :
    \/ ctl.dragTarget # 0 /\ ctl.history[ctl.dragTarget].absEl = a
    \/ a \in Range(ctl.selected)

=============================================================================
